---- MODULE Spec2Model ----
(***************************************************************************)
(* Model of the storyteller scripts: the layout pattern selector           *)
(* (scripts/layout_selector.py) and the explainer script parser            *)
(* (scripts/prompt_parser.py).                                             *)
(*                                                                         *)
(* Python values are modelled as follows.  A list is a sequence, a dict    *)
(* with a fixed key order is a record plus the sequence of its keys, and   *)
(* an Optional value is the empty sequence (None) or a one-element         *)
(* sequence holding the value.                                             *)
(***************************************************************************)
EXTENDS Integers, Sequences, FiniteSets, TLC

VARIABLES
  sel,      \* the last suggest_patterns / get_category call and its result
  gen,      \* the running generate_sequence call
  file,     \* the text written by save_sequence (None before any save)
  loaded,   \* the value returned by load_sequence (None before any load)
  doc,      \* the explainer document handed to parse_explainer_file
  parsed,   \* the result of parse_explainer_file (None before the call)
  scene,    \* the SceneData object constructed directly (None before)
  exists,   \* whether the path of the document names an existing file
  error,    \* the exception parse_explainer_file raised ("" when none)
  orch,     \* the running orchestrate_workflow call
  narr      \* the last narration_extractor call and its result

vars ==
  <<sel, gen, file, loaded, doc, parsed, scene, exists, error, orch, narr>>

(***************************************************************************)
(* Bounds of the model.                                                    *)
(***************************************************************************)
MaxCount == 3       \* suggest_patterns is called with count in 0..MaxCount
SampleStride == 63  \* a random draw takes the first or the last element of
                    \* the remaining population, or one whose position is
                    \* a multiple of SampleStride
MaxUsed == 2        \* used_patterns inputs: at most MaxUsed ids of UsedPool
MaxUnused == 2      \* or every id except at most MaxUnused ids of UnusedPool
MaxScenes == 4      \* generate_sequence is called with num_scenes <= MaxScenes
MaxLines == 4       \* a document has at most MaxLines lines
MaxPromptLines == 4 \* a prompt text has at most MaxPromptLines lines
MaxBlocks == 3      \* a workflow document has at most MaxBlocks scene blocks
MaxOver == 2           \* scenes asked of generate_sequence beyond the catalog
MaxTail == 3           \* last ids of the catalog drawn without restriction
MaxNarrated == 3    \* a narrated document has at most MaxNarrated scene blocks

(***************************************************************************)
(* Python helpers.                                                         *)
(***************************************************************************)
None == <<>>
Some(v) == <<v>>

Min(a, b) == IF a < b THEN a ELSE b

\* x in s, for a list s
InList(x, s) == \E i \in 1..Len(s) : s[i] = x

\* list(range(a, b))
Range(a, b) == [i \in 1..(b - a) |-> a + i - 1]

\* s[:k] for k >= 0
Take(s, k) == SubSeq(s, 1, Min(k, Len(s)))

\* the list s without its j-th element
RemoveAt(s, j) == SubSeq(s, 1, j - 1) \o SubSeq(s, j + 1, Len(s))

\* str.capitalize() of a lower-case ASCII word
UpperOf ==
  [a |-> "A", b |-> "B", c |-> "C", d |-> "D", e |-> "E", f |-> "F", g |-> "G",
   h |-> "H", i |-> "I", j |-> "J", k |-> "K", l |-> "L", m |-> "M", n |-> "N",
   o |-> "O", p |-> "P", q |-> "Q", r |-> "R", s |-> "S", t |-> "T", u |-> "U",
   v |-> "V", w |-> "W", x |-> "X", y |-> "Y", z |-> "Z"]
Capitalize(word) ==
  IF word = "" THEN ""
  ELSE UpperOf[SubSeq(word, 1, 1)] \o SubSeq(word, 2, Len(word))

(***************************************************************************)
(* The static tables of layout_selector.py.                                *)
(***************************************************************************)
\* LAYOUT_PATTERNS: the name of pattern id i is LAYOUT_PATTERNS[i]; the keys
\* of the dict are 1..100 in this order.  The names of 63, 64 and 65 hold
\* the multiplication sign U+00D7, the one character outside ASCII of the
\* program's strings; it is written "*" here, a character no name holds.
LAYOUT_PATTERNS ==
  <<
    "Right-Heavy Asymmetric", "Left-Heavy Asymmetric",
    "Top-Heavy Asymmetric", "Bottom-Heavy Asymmetric",
    "Diagonal Heavy (Top-Left to Bottom-Right)", "Diagonal Heavy (Top-Right to Bottom-Left)",
    "Corner Focus (Top-Left)", "Corner Focus (Bottom-Right)",
    "Z-Pattern Asymmetric", "Inverted Z-Pattern",
    "C-Curve Asymmetric", "S-Curve Flow",
    "Stair-Step Asymmetric", "Cluster & Isolate",
    "Weighted Corners (3:1)", "Vertical 50/50",
    "Vertical 30/70", "Vertical 70/30",
    "Vertical 20/80", "Vertical 60/40",
    "Horizontal 50/50", "Horizontal 30/70",
    "Horizontal 70/30", "Horizontal 40/60",
    "Triple Vertical Split (33/33/33)", "Triple Horizontal Split",
    "Golden Ratio Vertical (62/38)", "Golden Ratio Horizontal (62/38)",
    "Uneven Triple Vertical (50/25/25)", "Uneven Triple Horizontal (20/60/20)",
    "Diagonal Cascade (Top-Left to Bottom-Right)", "Diagonal Cascade (Top-Right to Bottom-Left)",
    "Diagonal Cascade (Bottom-Left to Top-Right)", "Diagonal Cascade (Bottom-Right to Top-Left)",
    "Cross-Diagonal (X-Pattern)", "Chevron Up",
    "Chevron Down", "Lightning Bolt",
    "Waterfall Flow", "Ascending Stairs",
    "Wave Pattern", "Mountain Peak",
    "Valley Dip", "Spiral Diagonal",
    "Ribbon Twist", "Circular Orbit (Clockwise)",
    "Circular Orbit (Counter-Clockwise)", "Elliptical Orbit",
    "Double Orbit", "Radial Expansion (Outward)",
    "Radial Contraction (Inward)", "Compass Points (4 Directions)",
    "Compass Points (8 Directions)", "Sunburst Radial",
    "Target Circles (Concentric)", "Semicircle Arc (Top)",
    "Semicircle Arc (Bottom)", "Quarter Circle (Top-Right)",
    "Quarter Circle (Bottom-Left)", "Spiral (Inward)",
    "Four-Quadrant (Equal)", "Four-Quadrant (Unequal)",
    "Six-Grid (2*3)", "Six-Grid (3*2)",
    "Nine-Grid (3*3)", "Checkerboard Pattern",
    "Brick Pattern (Offset Grid)", "Honeycomb Grid",
    "Plus/Cross Grid", "L-Shaped Grid",
    "T-Shaped Grid", "U-Shaped Grid",
    "Border Frame Grid", "Scattered Grid",
    "Nested Squares", "Before/After (Left/Right)",
    "Before/After (Top/Bottom)", "Before/After (Diagonal Split)",
    "Problem/Solution Split", "Old vs New",
    "Small vs Large (Scale Contrast)", "Simple vs Complex",
    "Empty vs Full", "Light vs Dark (Value Contrast)",
    "Few vs Many", "Timeline Journey (Horizontal)",
    "Timeline Journey (Vertical)", "Timeline Journey (Spiral)",
    "Hub-and-Spoke", "Tree/Branch Structure",
    "River Delta", "Funnel (Wide to Narrow)",
    "Inverse Funnel (Narrow to Wide)", "Pinwheel",
    "Overlapping Circles (Venn)", "Scattered Constellation",
    "Magazine Layout", "Layered Depth (Front-to-Back)",
    "Woven Pattern", "Floating Islands"
  >>

\* list(LAYOUT_PATTERNS.keys())
PatternKeys == [i \in 1..Len(LAYOUT_PATTERNS) |-> i]

CategoryNames ==
  <<"asymmetric", "split", "diagonal", "circular", "grid", "comparison", "specialty">>

\* mutant: the first range ends one id early, so 15 is in no category
CATEGORIES_gap ==
  [asymmetric |-> Range(1, 15),
   split      |-> Range(16, 31),
   diagonal   |-> Range(31, 46),
   circular   |-> Range(46, 61),
   grid       |-> Range(61, 76),
   comparison |-> Range(76, 86),
   specialty  |-> Range(86, 101)]

\* CATEGORIES[c] is the id list of category c
CATEGORIES ==
  [asymmetric |-> Range(1, 16),
   split      |-> Range(16, 31),
   diagonal   |-> Range(31, 46),
   circular   |-> Range(46, 61),
   grid       |-> Range(61, 76),
   comparison |-> Range(76, 86),
   specialty  |-> Range(86, 101)]

SCENE_TYPE_RECOMMENDATIONS ==
  [opening    |-> <<46, 50, 51, 60, 89, 95>>,
   closing    |-> <<46, 50, 51, 60, 89, 95, 100>>,
   problem    |-> <<1, 2, 46, 76, 77, 83>>,
   discovery  |-> <<31, 33, 50, 56, 92, 96>>,
   solution   |-> <<17, 61, 70, 89, 90, 93>>,
   impact     |-> <<42, 50, 86, 87, 91, 100>>,
   comparison |-> <<76, 77, 78, 79, 80, 81, 82, 83, 84, 85>>,
   timeline   |-> <<86, 87, 88>>,
   network    |-> <<89, 90, 91, 95>>]

WeightNames == <<"light", "medium", "heavy">>

VISUAL_WEIGHT ==
  [light  |-> <<2, 7, 14, 19, 24, 56, 73, 83, 96, 100>>,
   medium |-> <<16, 21, 25, 51, 61, 65, 76, 86, 89, 95>>,
   heavy  |-> <<1, 9, 48, 49, 62, 66, 74, 90, 97, 99>>]

(***************************************************************************)
(* get_category                                                            *)
(***************************************************************************)
\* mutant: an id no category holds gets the last category
get_category_last(pattern_id) ==
  LET owners == SelectSeq(CategoryNames,
                          LAMBDA c : InList(pattern_id, CATEGORIES[c]))
  IN  IF owners # <<>> THEN owners[1] ELSE CategoryNames[Len(CategoryNames)]

\* The first category, in dict order, whose id list holds pattern_id.
get_category(pattern_id) ==
  LET owners == SelectSeq(CategoryNames,
                          LAMBDA c : InList(pattern_id, CATEGORIES[c]))
  IN  IF owners # <<>> THEN owners[1] ELSE "unknown"

(***************************************************************************)
(* suggest_patterns                                                        *)
(***************************************************************************)
\* `scene_type and scene_type in SCENE_TYPE_RECOMMENDATIONS`
RecognizedType(scene_type) ==
  /\ scene_type # None
  /\ scene_type[1] # ""
  /\ scene_type[1] \in DOMAIN SCENE_TYPE_RECOMMENDATIONS

\* `if previous_pattern:` is false for None and for 0
GivenPattern(previous_pattern) ==
  previous_pattern # None /\ previous_pattern[1] # 0

\* `used_patterns = used_patterns or []`
UsedList(used_patterns) ==
  IF used_patterns = None THEN <<>> ELSE used_patterns[1]

\* mutant: the backfill pool is every id, used or not
UnusedPatterns_all(used_patterns) == PatternKeys

\* [p for p in LAYOUT_PATTERNS.keys() if p not in used_patterns]
UnusedPatterns(used_patterns) ==
  SelectSeq(PatternKeys, LAMBDA p : ~InList(p, used_patterns))

\* mutant: the used ids are not removed from the start list
StartCandidates_unfiltered(scene_type, used_patterns) ==
  IF RecognizedType(scene_type)
  THEN SCENE_TYPE_RECOMMENDATIONS[scene_type[1]]
  ELSE PatternKeys

\* The candidates before the category step: the curated list of a recognized
\* scene type, or every id, without the used ids.
StartCandidates(scene_type, used_patterns) ==
  LET start == IF RecognizedType(scene_type)
               THEN SCENE_TYPE_RECOMMENDATIONS[scene_type[1]]
               ELSE PatternKeys
  IN  SelectSeq(start, LAMBDA p : ~InList(p, used_patterns))

SameCategory(candidates, previous_pattern) ==
  SelectSeq(candidates,
            LAMBDA p : get_category(p) = get_category(previous_pattern[1]))

DiffCategory(candidates, previous_pattern) ==
  SelectSeq(candidates,
            LAMBDA p : get_category(p) # get_category(previous_pattern[1]))

\* random.random() is drawn only when diff_category is not empty
DrawsChance(scene_type, used_patterns, previous_pattern) ==
  /\ GivenPattern(previous_pattern)
  /\ DiffCategory(StartCandidates(scene_type, used_patterns), previous_pattern) # <<>>

\* mutant: the category step never restricts the candidates
CategoryStep_union(candidates, previous_pattern, chance) ==
  IF GivenPattern(previous_pattern)
  THEN SameCategory(candidates, previous_pattern)
       \o DiffCategory(candidates, previous_pattern)
  ELSE candidates

\* The candidates after the category step; chance is random.random() < 0.8.
CategoryStep(candidates, previous_pattern, chance) ==
  IF GivenPattern(previous_pattern)
  THEN LET same_category == SameCategory(candidates, previous_pattern)
           diff_category == DiffCategory(candidates, previous_pattern)
       IN  IF diff_category # <<>> /\ chance
           THEN diff_category
           ELSE same_category \o diff_category
  ELSE candidates

\* mutant: no backfill
Backfill_none(candidates, used_patterns, count) == candidates

\* candidates.extend(unused[:count - len(candidates)]) when too few remain
Backfill(candidates, used_patterns, count) ==
  IF Len(candidates) < count
  THEN candidates \o Take(UnusedPatterns(used_patterns), count - Len(candidates))
  ELSE candidates

\* The candidate pool handed to random.sample.
CandidatePool(scene_type, used_patterns, previous_pattern, count, chance) ==
  Backfill(CategoryStep(StartCandidates(scene_type, used_patterns),
                        previous_pattern, chance),
           used_patterns, count)

\* The positions of a population of n elements one draw may take.
DrawIndexes(n) == {j \in 1..n : j = 1 \/ j = n \/ j % SampleStride = 0}

\* random.sample(population, k): the lists of k elements drawn from distinct
\* positions of the population, in the order drawn.
RECURSIVE random_sample(_, _)
random_sample(population, k) ==
  IF k = 0 THEN {<<>>}
  ELSE UNION {{<<population[j]>> \o rest :
                  rest \in random_sample(RemoveAt(population, j), k - 1)} :
              j \in DrawIndexes(Len(population))}

\* The weight of the first class, in dict order, listing the id; else medium.
WeightOf(pattern_id) ==
  LET classes == SelectSeq(WeightNames,
                           LAMBDA w : InList(pattern_id, VISUAL_WEIGHT[w]))
  IN  IF classes # <<>> THEN classes[1] ELSE "medium"

\* " | ".join(parts)
RECURSIVE JoinBar(_)
JoinBar(parts) ==
  IF parts = <<>> THEN ""
  ELSE IF Len(parts) = 1 THEN parts[1]
  ELSE parts[1] \o " | " \o JoinBar(Tail(parts))

ReasonOf(pattern_id, scene_type, previous_pattern) ==
  LET recommended ==
        IF RecognizedType(scene_type)
           /\ InList(pattern_id, SCENE_TYPE_RECOMMENDATIONS[scene_type[1]])
        THEN <<"Recommended for " \o scene_type[1] \o " scenes">>
        ELSE <<>>
      different ==
        IF GivenPattern(previous_pattern)
           /\ get_category(pattern_id) # get_category(previous_pattern[1])
        THEN <<"Different category from previous">>
        ELSE <<>>
  IN  JoinBar(recommended \o different
              \o <<Capitalize(WeightOf(pattern_id)) \o " visual weight">>)

\* One suggestion dict.
Suggestion(pattern_id, scene_type, previous_pattern) ==
  [pattern_id |-> pattern_id,
   name       |-> LAYOUT_PATTERNS[pattern_id],
   category   |-> get_category(pattern_id),
   weight     |-> WeightOf(pattern_id),
   reason     |-> ReasonOf(pattern_id, scene_type, previous_pattern)]

\* The lists suggest_patterns may return, for one outcome of the 80% draw.
suggest_patterns(scene_type, used_patterns, previous_pattern, count, chance) ==
  LET candidates == CandidatePool(scene_type, UsedList(used_patterns),
                                  previous_pattern, count, chance)
  IN  {[i \in 1..Len(selected) |->
           Suggestion(selected[i], scene_type, previous_pattern)] :
       selected \in random_sample(candidates, Min(count, Len(candidates)))}

(***************************************************************************)
(* save_sequence and load_sequence: json.dump(sequence, f, indent=2) and   *)
(* json.load(f), on the characters of the file.                            *)
(***************************************************************************)
\* the character at position p of text, "" outside it
Char(text, p) == IF p >= 1 /\ p <= Len(text) THEN SubSeq(text, p, p) ELSE ""

Digits == "0123456789"

\* the printable ASCII characters json.dump writes unescaped (without the
\* backquote, which no string of the program holds, and without "*", which
\* stands for U+00D7)
AsciiPlain ==
  {
   " ", "!", "#", "$", "%", "&", "'", "(", ")", "+", ",", "-", ".", "/", "0",
   "1", "2", "3", "4", "5", "6", "7", "8", "9", ":", ";", "<", "=", ">", "?", "@",
   "A", "B", "C", "D", "E", "F", "G", "H", "I", "J", "K", "L", "M", "N", "O", "P",
   "Q", "R", "S", "T", "U", "V", "W", "X", "Y", "Z", "[", "]", "^", "_", "a",
   "b", "c", "d", "e", "f", "g", "h", "i", "j", "k", "l", "m", "n", "o", "p", "q",
   "r", "s", "t", "u", "v", "w", "x", "y", "z", "{", "|", "}", "~"}

\* the characters outside ASCII that the names of the catalog use, with the
\* four hex digits of their code point
NonAscii == {[ch |-> "*", hex |-> "00d7"]}

RECURSIVE NatToStr(_)
NatToStr(n) ==
  IF n < 10 THEN Char(Digits, n + 1)
  ELSE NatToStr(n \div 10) \o Char(Digits, (n % 10) + 1)

\* the decimal text of an int
IntToStr(n) == IF n < 0 THEN "-" \o NatToStr(0 - n) ELSE NatToStr(n)

\* one character of a string, as json.dump writes it with ensure_ascii
EscapeChar(c) ==
  CASE c = "\"" -> "\\\""
    [] c = "\\" -> "\\\\"
    [] c = "\n" -> "\\n"
    [] c = "\r" -> "\\r"
    [] c = "\t" -> "\\t"
    [] c \in AsciiPlain -> c
    [] OTHER -> "\\u" \o (CHOOSE e \in NonAscii : e.ch = c).hex

RECURSIVE EscapeAll(_)
EscapeAll(str) ==
  IF str = "" THEN ""
  ELSE EscapeChar(Char(str, 1)) \o EscapeAll(SubSeq(str, 2, Len(str)))

EncodeString(str) == "\"" \o EscapeAll(str) \o "\""

\* the keys of a sequence record, in insertion order
RecordKeys == <<"scene_number", "pattern_id", "name", "category", "weight">>

\* the keys whose values are ints; the others hold strings
IntKeys == {"scene_number", "pattern_id"}

EncodeValue(key, value) ==
  IF key \in IntKeys THEN IntToStr(value) ELSE EncodeString(value)

\* the items joined by a comma and a newline
RECURSIVE JoinLines(_)
JoinLines(items) ==
  IF items = <<>> THEN ""
  ELSE IF Len(items) = 1 THEN items[1]
  ELSE items[1] \o ",\n" \o JoinLines(Tail(items))

\* one dict of the list, at indent level 1
EncodeRecord(record) ==
  "  {\n"
  \o JoinLines([k \in 1..Len(RecordKeys) |->
                  "    " \o EncodeString(RecordKeys[k]) \o ": "
                  \o EncodeValue(RecordKeys[k], record[RecordKeys[k]])])
  \o "\n  }"

\* json.dumps(sequence, indent=2)
json_dumps(sequence) ==
  IF sequence = <<>> THEN "[]"
  ELSE "[\n"
       \o JoinLines([k \in 1..Len(sequence) |-> EncodeRecord(sequence[k])])
       \o "\n]"

Whitespace == {" ", "\t", "\n", "\r"}

RECURSIVE SkipWs(_, _)
SkipWs(text, p) ==
  IF Char(text, p) \in Whitespace THEN SkipWs(text, p + 1) ELSE p

\* the character a backslash escape stands for
Unescape(c) ==
  CASE c = "n" -> "\n"
    [] c = "r" -> "\r"
    [] c = "t" -> "\t"
    [] OTHER -> c

\* mutant: a \uXXXX escape is not decoded
CharOfHex_raw(hex) == "u" \o hex

\* the character of a \uXXXX escape
CharOfHex(hex) ==
  IF \E e \in NonAscii : e.hex = hex
  THEN (CHOOSE e \in NonAscii : e.hex = hex).ch
  ELSE "?"

\* the string whose opening quote ends before position p
RECURSIVE ScanString(_, _, _)
ScanString(text, p, acc) ==
  LET c == Char(text, p)
  IN  IF c = "" \/ c = "\"" THEN [val |-> acc, end |-> p + 1]
      ELSE IF c = "\\"
        THEN IF Char(text, p + 1) = "u"
             THEN ScanString(text, p + 6,
                             acc \o CharOfHex(SubSeq(text, p + 2, p + 5)))
             ELSE ScanString(text, p + 2, acc \o Unescape(Char(text, p + 1)))
      ELSE ScanString(text, p + 1, acc \o c)

DigitValue(c) == CHOOSE d \in 0..9 : Char(Digits, d + 1) = c

IsDigit(c) == \E d \in 0..9 : Char(Digits, d + 1) = c

RECURSIVE ScanDigits(_, _, _)
ScanDigits(text, p, acc) ==
  IF IsDigit(Char(text, p))
  THEN ScanDigits(text, p + 1, 10 * acc + DigitValue(Char(text, p)))
  ELSE [val |-> acc, end |-> p]

ScanNumber(text, p) ==
  IF Char(text, p) = "-"
  THEN LET n == ScanDigits(text, p + 1, 0)
       IN  [val |-> 0 - n.val, end |-> n.end]
  ELSE ScanDigits(text, p, 0)

RECURSIVE ScanValue(_, _), ScanElements(_, _, _), ScanMembers(_, _, _)

\* the value starting at position p
ScanValue(text, p) ==
  LET c == Char(text, p)
  IN  CASE c = "\"" -> ScanString(text, p + 1, "")
        [] c = "[" ->
             LET q == SkipWs(text, p + 1)
             IN  IF Char(text, q) = "]" THEN [val |-> <<>>, end |-> q + 1]
                 ELSE ScanElements(text, q, <<>>)
        [] c = "{" ->
             LET q == SkipWs(text, p + 1)
             IN  IF Char(text, q) = "}" THEN [val |-> <<>>, end |-> q + 1]
                 ELSE ScanMembers(text, q, <<>>)
        [] OTHER -> ScanNumber(text, p)

\* the elements of a list, from the element starting at p
ScanElements(text, p, acc) ==
  LET v == ScanValue(text, p)
      q == SkipWs(text, v.end)
  IN  IF Char(text, q) = ","
      THEN ScanElements(text, SkipWs(text, q + 1), Append(acc, v.val))
      ELSE [val |-> Append(acc, v.val), end |-> q + 1]

\* the members of a dict, from the key whose opening quote is at p
ScanMembers(text, p, acc) ==
  LET key == ScanString(text, p + 1, "")
      colon == SkipWs(text, key.end)
      v == ScanValue(text, SkipWs(text, colon + 1))
      q == SkipWs(text, v.end)
      dict == (key.val :> v.val) @@ acc
  IN  IF Char(text, q) = ","
      THEN ScanMembers(text, SkipWs(text, q + 1), dict)
      ELSE [val |-> dict, end |-> q + 1]

\* json.loads(text)
json_loads(text) == ScanValue(text, SkipWs(text, 1)).val

(***************************************************************************)
(* State and inputs.                                                       *)
(***************************************************************************)
\* the module-level tables, as objects a call could modify
StaticTables ==
  [LAYOUT_PATTERNS |-> LAYOUT_PATTERNS, CATEGORIES |-> CATEGORIES,
   SCENE_TYPE_RECOMMENDATIONS |-> SCENE_TYPE_RECOMMENDATIONS,
   VISUAL_WEIGHT |-> VISUAL_WEIGHT]

\* mutant: the candidates are filtered without rebinding, so the list
\* extended is the curated list of the table, or else the caller's list
ExtendedObject_shared(scene_type, used_patterns, previous_pattern) ==
  IF RecognizedType(scene_type) THEN "curated"
  ELSE IF used_patterns # None THEN "used_patterns" ELSE "filtered"

\* The list object bound to candidates when candidates.extend runs: the
\* list built by the filter comprehension ("filtered"), or the one built by
\* the category step when a previous pattern is given ("category"); either
\* is a new list local to the call.
ExtendedObject(scene_type, used_patterns, previous_pattern) ==
  IF GivenPattern(previous_pattern) THEN "category" ELSE "filtered"

\* the ids candidates.extend adds
Extension(scene_type, used_patterns, previous_pattern, count, chance) ==
  LET candidates == CategoryStep(StartCandidates(scene_type, used_patterns),
                                 previous_pattern, chance)
  IN  IF Len(candidates) < count
      THEN Take(UnusedPatterns(used_patterns), count - Len(candidates))
      ELSE <<>>

\* The tables and the caller's used_patterns list after a call: the only
\* statement of suggest_patterns that modifies a list in place is
\* candidates.extend.
ObjectsAfter(scene_type, used_patterns, previous_pattern, count, chance) ==
  LET object == ExtendedObject(scene_type, used_patterns, previous_pattern)
      added  == Extension(scene_type, UsedList(used_patterns),
                          previous_pattern, count, chance)
  IN  [tables |->
         IF object = "curated"
         THEN [StaticTables EXCEPT
                 !.SCENE_TYPE_RECOMMENDATIONS[scene_type[1]] = @ \o added]
         ELSE StaticTables,
       used_patterns |->
         IF object = "used_patterns"
         THEN Some(used_patterns[1] \o added)
         ELSE used_patterns]

NoCall ==
  [op |-> "none", scene_type |-> None, used_patterns |-> None,
   previous_pattern |-> None, count |-> 0, restricted |-> FALSE,
   suggestions |-> <<>>, pattern_id |-> 0, category |-> "",
   tables |-> StaticTables, used_after |-> None]

NoSequence ==
  [pc |-> "idle", num_scenes |-> 0, scene_types |-> None, i |-> 0,
   sequence |-> <<>>, used_patterns |-> <<>>, previous_pattern |-> None,
   call |-> None]

\* the list of the ids of S, in increasing order
ListOf(S) == SelectSeq(PatternKeys, LAMBDA p : p \in S)

SceneTypeInputs ==
  {None, Some(""), Some("problem"), Some("timeline"), Some("bogus")}

UsedPool == {1, 46, 86, 87}
UnusedPool == {1, 50, 99}

UsedInputs ==
  {None}
  \cup {Some(ListOf(S)) : S \in {T \in SUBSET UsedPool : Cardinality(T) <= MaxUsed}}
  \cup {Some(ListOf((1..Len(LAYOUT_PATTERNS)) \ S)) :
           S \in {T \in SUBSET UnusedPool : Cardinality(T) <= MaxUnused}}

PreviousInputs == {None, Some(0), Some(1), Some(99), Some(101)}

IdInputs == (0 - 2)..(Len(LAYOUT_PATTERNS) + 2)

\* no orchestrate_workflow call made yet
NoWorkflow ==
  [pc |-> "idle", scene_numbers |-> None, skip_existing |-> TRUE,
   continue_on_error |-> TRUE, scenes |-> <<>>, i |-> 0, total |-> 0,
   completed |-> 0, skipped |-> 0, failed |-> 0, processed |-> <<>>,
   error |-> "", stats |-> None, data |-> <<>>, outputs |-> {}, log |-> <<>>,
   asked |-> 0]

\* no narration_extractor call made yet
NoNarration ==
  [op |-> "none", scene_number |-> 0, scenes |-> <<>>, narration |-> None,
   error |-> ""]

Init ==
  /\ sel = NoCall
  /\ gen = NoSequence
  /\ file = None
  /\ loaded = None
  /\ doc = ""
  /\ parsed = None
  /\ scene = None
  /\ exists = TRUE
  /\ error = ""
  /\ orch = NoWorkflow
  /\ narr = NoNarration

(***************************************************************************)
(* Calls of suggest_patterns and get_category.                             *)
(***************************************************************************)
\* Each behaviour makes one call, from the state in which none was made.
SuggestCall ==
  /\ sel.op = "none"
  /\ \E scene_type \in SceneTypeInputs, used_patterns \in UsedInputs,
        previous_pattern \in PreviousInputs, count \in 0..MaxCount,
        chance \in BOOLEAN :
       /\ chance => DrawsChance(scene_type, UsedList(used_patterns), previous_pattern)
       /\ \E after \in {ObjectsAfter(scene_type, used_patterns,
                                      previous_pattern, count, chance)} :
          \E suggestions \in suggest_patterns(scene_type, used_patterns,
                                               previous_pattern, count, chance) :
            sel' = [op |-> "suggest", scene_type |-> scene_type,
                    used_patterns |-> used_patterns,
                    previous_pattern |-> previous_pattern, count |-> count,
                    restricted |-> chance, suggestions |-> suggestions,
                    pattern_id |-> 0, category |-> "",
                    tables |-> after.tables,
                    used_after |-> after.used_patterns]
  /\ UNCHANGED <<gen, file, loaded, doc, parsed, scene,
                 exists, error, orch, narr>>

GetCategoryCall ==
  /\ sel.op = "none"
  /\ \E pattern_id \in IdInputs :
       sel' = [NoCall EXCEPT !.op = "category", !.pattern_id = pattern_id,
                             !.category = get_category(pattern_id)]
  /\ UNCHANGED <<gen, file, loaded, doc, parsed, scene,
                 exists, error, orch, narr>>

Next == SuggestCall \/ GetCategoryCall

Spec == Init /\ [][Next]_vars

(***************************************************************************)
(* generate_sequence, one action per loop iteration.                       *)
(***************************************************************************)
SuggestCount == 3   \* generate_sequence asks for count=3 at every step

GenSceneTypes == {"timeline", "problem"}

\* the lists of length n over the scene types of the model
TypeLists(n) == [1..n -> GenSceneTypes]

SceneTypesInputs ==
  {None} \cup {Some(types) : types \in UNION {TypeLists(n) : n \in 0..MaxScenes}}

\* `if scene_types:` is false for None and for the empty list
GivenTypes(scene_types) == scene_types # None /\ scene_types[1] # <<>>

\* `if scene_types and len(scene_types) != num_scenes: raise ValueError`
LengthMismatch(num_scenes, scene_types) ==
  GivenTypes(scene_types) /\ Len(scene_types[1]) # num_scenes

\* `scene_types[i] if scene_types else None`, for the 0-based index i
SceneTypeAt(scene_types, i) ==
  IF GivenTypes(scene_types) THEN Some(scene_types[1][i + 1]) ELSE None

\* the latest call of suggest_patterns made by the loop: its arguments, the
\* length of the list it returned and `selected = suggestions[0]`
SuggestionsCall(used_patterns, previous_pattern, count, suggestions) ==
  [used_patterns |-> used_patterns, previous_pattern |-> previous_pattern,
   count |-> count, returned |-> Len(suggestions),
   selected |-> IF suggestions = <<>> THEN None ELSE Some(suggestions[1])]

\* mutant: the scenes are numbered from 1
SequenceRecord_onebased(i, selected) ==
  [scene_number |-> i + 1,
   pattern_id   |-> selected.pattern_id,
   name         |-> selected.name,
   category     |-> selected.category,
   weight       |-> selected.weight]

\* the record appended for scene i from the first suggestion
SequenceRecord(i, selected) ==
  [scene_number |-> i,
   pattern_id   |-> selected.pattern_id,
   name         |-> selected.name,
   category     |-> selected.category,
   weight       |-> selected.weight]

GenCall ==
  /\ gen.pc = "idle"
  /\ \E num_scenes \in 0..MaxScenes, scene_types \in SceneTypesInputs :
       gen' = [NoSequence EXCEPT
                 !.pc = IF LengthMismatch(num_scenes, scene_types)
                        THEN "raised" ELSE "loop",
                 !.num_scenes = num_scenes,
                 !.scene_types = scene_types]
  /\ UNCHANGED <<sel, file, loaded, doc, parsed, scene,
                 exists, error, orch, narr>>

GenStep ==
  /\ gen.pc = "loop"
  /\ gen.i < gen.num_scenes
  /\ LET scene_type == SceneTypeAt(gen.scene_types, gen.i)
     IN  \E chance \in BOOLEAN :
           /\ chance => DrawsChance(scene_type, gen.used_patterns,
                                    gen.previous_pattern)
           /\ \E suggestions \in suggest_patterns(scene_type,
                                   Some(gen.used_patterns),
                                   gen.previous_pattern, SuggestCount, chance) :
                LET called == [gen EXCEPT !.call =
                                 Some(SuggestionsCall(gen.used_patterns,
                                        gen.previous_pattern, SuggestCount,
                                        suggestions))]
                IN  gen' = IF suggestions # <<>>
                           THEN [called EXCEPT
                                   !.sequence = Append(@, SequenceRecord(gen.i, suggestions[1])),
                                   !.used_patterns = Append(@, suggestions[1].pattern_id),
                                   !.previous_pattern = Some(suggestions[1].pattern_id),
                                   !.i = @ + 1]
                           ELSE [called EXCEPT !.i = @ + 1]
  /\ UNCHANGED <<sel, file, loaded, doc, parsed, scene,
                 exists, error, orch, narr>>

GenReturn ==
  /\ gen.pc = "loop"
  /\ gen.i = gen.num_scenes
  /\ gen' = [gen EXCEPT !.pc = "returned"]
  /\ UNCHANGED <<sel, file, loaded, doc, parsed, scene,
                 exists, error, orch, narr>>

(***************************************************************************)
(* generate_sequence asked for more scenes than the catalog has patterns.  *)
(* To reach the end of the pool, the runs followed are those in which,     *)
(* while more than MaxTail ids are unused, the 80% draw fails and          *)
(* random.sample returns the head of the pool first; the last MaxTail ids  *)
(* are drawn as in GenStep.                                                *)
(***************************************************************************)
ExhaustCall ==
  /\ gen.pc = "idle"
  /\ \E num_scenes \in (Len(LAYOUT_PATTERNS) + 1)..(Len(LAYOUT_PATTERNS) + MaxOver) :
       \E scene_types \in {None, Some([k \in 1..num_scenes |-> "timeline"])} :
         gen' = [NoSequence EXCEPT
                   !.pc = IF LengthMismatch(num_scenes, scene_types)
                          THEN "raised" ELSE "loop",
                   !.num_scenes = num_scenes,
                   !.scene_types = scene_types]
  /\ UNCHANGED <<sel, file, loaded, doc, parsed, scene,
                 exists, error, orch, narr>>

\* the step took the head of the pool of the failed 80% draw
HeadDrawn ==
  gen'.previous_pattern
    = Some(Head(CandidatePool(SceneTypeAt(gen.scene_types, gen.i),
                              gen.used_patterns, gen.previous_pattern,
                              SuggestCount, FALSE)))

ExhaustStep ==
  /\ GenStep
  /\ Len(gen.used_patterns) + MaxTail < Len(LAYOUT_PATTERNS) => HeadDrawn

ExhaustNext == ExhaustCall \/ ExhaustStep \/ GenReturn

ExhaustSpec == Init /\ [][ExhaustNext]_vars

(***************************************************************************)
(* save_sequence and load_sequence on the returned sequence.               *)
(***************************************************************************)
SaveSequence ==
  /\ gen.pc = "returned"
  /\ file = None
  /\ file' = Some(json_dumps(gen.sequence))
  /\ UNCHANGED <<sel, gen, loaded, doc, parsed, scene,
                 exists, error, orch, narr>>

LoadSequence ==
  /\ file # None
  /\ loaded = None
  /\ loaded' = Some(json_loads(file[1]))
  /\ UNCHANGED <<sel, gen, file, doc, parsed, scene,
                 exists, error, orch, narr>>

SeqNext == GenCall \/ GenStep \/ GenReturn \/ SaveSequence \/ LoadSequence

SeqSpec == Init /\ [][SeqNext]_vars

(***************************************************************************)
(* parse_explainer_file: the regular expressions of prompt_parser.py, on   *)
(* the characters of the document.                                         *)
(***************************************************************************)
\* the position after the whitespace (\s*) that starts at p
SkipSpace(text, p) == SkipWs(text, p)

\* pat occurs in text at position p
StartsAt(text, p, pat) ==
  /\ p >= 1
  /\ p + Len(pat) - 1 <= Len(text)
  /\ SubSeq(text, p, p + Len(pat) - 1) = pat

\* the least element of a non-empty set of positions
Least(S) == CHOOSE p \in S : \A q \in S : p <= q

\* the first position >= from at which pat occurs in text, 0 if there is none
FindFrom(text, pat, from) ==
  LET hits == {p \in from..(Len(text) - Len(pat) + 1) : StartsAt(text, p, pat)}
  IN  IF hits = {} THEN 0 ELSE Least(hits)

\* str.strip()
RECURSIVE StripRight(_)
StripRight(str) ==
  IF str # "" /\ Char(str, Len(str)) \in Whitespace
  THEN StripRight(SubSeq(str, 1, Len(str) - 1))
  ELSE str

Strip(str) == StripRight(SubSeq(str, SkipSpace(str, 1), Len(str)))

\* the position after the digits (\d*) that start at p
RECURSIVE SkipDigits(_, _)
SkipDigits(text, p) ==
  IF IsDigit(Char(text, p)) THEN SkipDigits(text, p + 1) ELSE p

\* int(digits)
StrToNat(digits) == ScanDigits(digits, 1, 0).val

\* the position after `\*?\*?` at p
SkipStars(text, p) ==
  IF Char(text, p) = "*"
  THEN IF Char(text, p + 1) = "*" THEN p + 2 ELSE p + 1
  ELSE p

SceneUpper == "SCENE"
SceneLower == "scene"

\* SCENE at p, in any case (re.IGNORECASE)
SceneWordAnyCase(text, p) ==
  \A k \in 1..Len(SceneUpper) :
    Char(text, p + k - 1) \in {Char(SceneUpper, k), Char(SceneLower, k)}

NoMatch == [ok |-> FALSE]

\* scene_pattern, r'##\s*\*?\*?SCENE\s+(\d+):\s*([^(]+)\s*\(([^)]+)\)' with
\* re.IGNORECASE, matched at position p: the three groups, the start and the
\* position after the match
HeaderAt(text, p) ==
  LET word   == SkipStars(text, SkipSpace(text, p + 2))
      number == SkipSpace(text, word + Len(SceneUpper))
      colon  == SkipDigits(text, number)
      open   == FindFrom(text, "(", colon + 1)
      close  == FindFrom(text, ")", open + 1)
      \* \s* is greedy but leaves [^(]+ at least one character
      title  == Min(SkipSpace(text, colon + 1), open - 1)
  IN  IF /\ StartsAt(text, p, "##")
         /\ SceneWordAnyCase(text, word)
         /\ number > word + Len(SceneUpper)
         /\ colon > number
         /\ Char(text, colon) = ":"
         /\ open > colon + 1
         /\ close > open + 1
      THEN [ok |-> TRUE, start |-> p,
            number |-> SubSeq(text, number, colon - 1),
            title |-> SubSeq(text, title, open - 1),
            descriptor |-> SubSeq(text, open + 1, close - 1),
            end |-> close + 1]
      ELSE NoMatch

\* re.finditer(scene_pattern, content): the matches from position p on, from
\* left to right and without overlap
RECURSIVE HeadersFrom(_, _)
HeadersFrom(text, p) ==
  LET q == FindFrom(text, "##", p)
  IN  IF q = 0 THEN <<>>
      ELSE LET m == HeaderAt(text, q)
           IN  IF m.ok THEN <<m>> \o HeadersFrom(text, m.end)
               ELSE HeadersFrom(text, q + 1)

\* r'\n##\s*\*?\*?SCENE' matches at position p (case-sensitive)
BoundaryAt(text, p) ==
  /\ StartsAt(text, p, "\n##")
  /\ StartsAt(text, SkipStars(text, SkipSpace(text, p + 3)), SceneUpper)

\* re.search(r'\n##\s*\*?\*?SCENE', content[scene_start:]): the position in
\* content of the first match at or after from, 0 if there is none
NextBoundary(text, from) ==
  LET hits == {p \in from..Len(text) : BoundaryAt(text, p)}
  IN  IF hits = {} THEN 0 ELSE Least(hits)

\* content[scene_start:scene_end], for the header match m
SceneContent(text, m) ==
  LET next == NextBoundary(text, m.end)
  IN  IF next # 0 THEN SubSeq(text, m.end, next - 1)
      ELSE SubSeq(text, m.end, Len(text))

WorkflowLabel == "Image Generation Prompts (2-Step Workflow):"
AnimationLabel == "Animation Prompt"
NanoLabel == "Nano Banana Iterative Prompt:"

\* r'Image Generation Prompts \(2-Step Workflow\):(.*?)Animation Prompt'
\* with re.DOTALL: group 1 of the first match in body
WorkflowBlock(body) ==
  LET label == FindFrom(body, WorkflowLabel, 1)
      from  == label + Len(WorkflowLabel)
      stop  == FindFrom(body, AnimationLabel, from)
  IN  IF label # 0 /\ stop # 0
      THEN [ok |-> TRUE, group |-> SubSeq(body, from, stop - 1)]
      ELSE NoMatch

\* the positions q of a closing quote that `\s*\n+Animation Prompt` follows
ClosingQuotes(body, open) ==
  {q \in (open + 2)..Len(body) :
     /\ Char(body, q) = "\""
     /\ LET stop == SkipSpace(body, q + 1)
        IN  /\ StartsAt(body, stop, AnimationLabel)
            /\ stop > q + 1
            /\ Char(body, stop - 1) = "\n"}

\* the pattern below matched with the label at position p
NanoAt(body, p) ==
  LET open == SkipSpace(body, p + Len(NanoLabel))
      newlines == {k \in (p + Len(NanoLabel))..(open - 1) : Char(body, k) = "\n"}
      closing == ClosingQuotes(body, open)
  IN  IF /\ StartsAt(body, p, NanoLabel)
         /\ newlines # {}
         /\ Char(body, open) = "\""
         /\ closing # {}
      THEN [ok |-> TRUE,
            group |-> SubSeq(body, open + 1,
                             (CHOOSE q \in closing : \A r \in closing : r <= q) - 1)]
      ELSE NoMatch

\* r'Nano Banana Iterative Prompt:\s*\n\s*"(.+)"\s*\n+Animation Prompt' with
\* re.DOTALL: group 1 of the first match in body, the greedy one
NanoBlock(body) ==
  LET hits == {p \in 1..Len(body) : NanoAt(body, p).ok}
  IN  IF hits = {} THEN NoMatch ELSE NanoAt(body, Least(hits))

\* the prompt block of a scene body: the two-stage format, else the fallback
PromptBlock(body) ==
  IF WorkflowBlock(body).ok THEN WorkflowBlock(body) ELSE NanoBlock(body)

\* a float, as the digits before and after the point
DefaultDuration == [whole |-> 6, fraction |-> ""]

\* float(text) for a text matched by r'(\d+\.?\d*)'
ToFloat(text) ==
  LET point == FindFrom(text, ".", 1)
  IN  IF point = 0 THEN [whole |-> StrToNat(text), fraction |-> ""]
      ELSE [whole |-> StrToNat(SubSeq(text, 1, point - 1)),
            fraction |-> SubSeq(text, point + 1, Len(text))]

\* the duration of a scene from the descriptor of its heading
SceneDuration(descriptor) ==
  LET starts == {p \in 1..Len(descriptor) : IsDigit(Char(descriptor, p))}
  IN  IF FindFrom(descriptor, "second", 1) # 0 /\ starts # {}
      THEN LET from  == Least(starts)
               whole == SkipDigits(descriptor, from)
               stop  == IF Char(descriptor, whole) = "."
                        THEN SkipDigits(descriptor, whole + 1) ELSE whole
           IN  ToFloat(SubSeq(descriptor, from, stop - 1))
      ELSE DefaultDuration

\* `\s*\n\s*"([^"]+)"` matched at position p: group 1
QuotedAfter(text, p) ==
  LET open == SkipSpace(text, p)
      close == FindFrom(text, "\"", open + 1)
  IN  IF /\ \E k \in p..(open - 1) : Char(text, k) = "\n"
         /\ Char(text, open) = "\""
         /\ close > open + 1
      THEN [ok |-> TRUE, group |-> SubSeq(text, open + 1, close - 1)]
      ELSE NoMatch

\* re.search(label + r'\s*\n\s*"([^"]+)"', text, re.DOTALL): group 1 of the
\* first match
LabelledQuote(text, label) ==
  LET hits == {p \in 1..Len(text) :
                 /\ StartsAt(text, p, label)
                 /\ QuotedAfter(text, p + Len(label)).ok}
  IN  IF hits = {} THEN NoMatch
      ELSE QuotedAfter(text, Least(hits) + Len(label))

InitialLabel == "Initial:"

\* r'Initial:\s*([^|]+)' matched at position p: group 1
InitialAt(text, p) ==
  LET from == p + Len(InitialLabel)
      bar  == FindFrom(text, "|", from)
      stop == IF bar = 0 THEN Len(text) + 1 ELSE bar
      \* \s* is greedy but leaves [^|]+ at least one character
      start == Min(SkipSpace(text, from), stop - 1)
  IN  IF StartsAt(text, p, InitialLabel) /\ stop > from
      THEN [ok |-> TRUE, group |-> SubSeq(text, start, stop - 1)]
      ELSE NoMatch

\* re.search(r'Initial:\s*([^|]+)', text): group 1 of the first match
InitialMarker(text) ==
  LET hits == {p \in 1..Len(text) : InitialAt(text, p).ok}
  IN  IF hits = {} THEN NoMatch ELSE InitialAt(text, Least(hits))

\* initial_prompt after the "Initial:" step
InitialFromMarker(prompt) ==
  IF StartsAt(Strip(prompt), 1, InitialLabel) /\ InitialMarker(prompt).ok
  THEN Some(Strip(InitialMarker(prompt).group))
  ELSE None

\* initial_prompt after the "Nano Banana Iterative Prompt:" step
InitialFromNano(prompt, initial_prompt) ==
  LET nano == LabelledQuote(prompt, NanoLabel)
  IN  IF nano.ok /\ InitialMarker(Strip(nano.group)).ok
      THEN Some(Strip(InitialMarker(Strip(nano.group)).group))
      ELSE initial_prompt

\* `if not self.initial_prompt` holds for None and for the empty string
NoInitial(initial_prompt) == initial_prompt = None \/ initial_prompt[1] = ""

\* initial_prompt after the legacy "Initial Prompt:" step
InitialFromLegacy(prompt, initial_prompt) ==
  LET legacy == LabelledQuote(prompt, "Initial Prompt:")
  IN  IF NoInitial(initial_prompt) /\ legacy.ok
      THEN Some(Strip(legacy.group))
      ELSE initial_prompt

FinalLabel == "Final Prompt"
Placeholder == "[To be determined"

\* r'Final Prompt.*?:\s*\n\s*"([^"]+)"' with re.DOTALL: group 1 of the first
\* match, the one with the nearest colon
FinalBlock(prompt) ==
  LET colons(p) == {c \in (p + Len(FinalLabel))..Len(prompt) :
                      Char(prompt, c) = ":" /\ QuotedAfter(prompt, c + 1).ok}
      hits == {p \in 1..Len(prompt) :
                 StartsAt(prompt, p, FinalLabel) /\ colons(p) # {}}
  IN  IF hits = {} THEN NoMatch
      ELSE QuotedAfter(prompt, Least(colons(Least(hits))) + 1)

\* mutant: the placeholder is not filtered out
FinalPrompt_unfiltered(prompt) ==
  IF FinalBlock(prompt).ok /\ Strip(FinalBlock(prompt).group) # ""
  THEN Some(Strip(FinalBlock(prompt).group))
  ELSE None

\* final_prompt: the quoted text under the label, unless it is empty or the
\* placeholder
FinalPrompt(prompt) ==
  LET final == FinalBlock(prompt)
  IN  IF /\ final.ok
         /\ Strip(final.group) # ""
         /\ ~StartsAt(Strip(final.group), 1, Placeholder)
      THEN Some(Strip(final.group))
      ELSE None

\* SceneData._parse_prompts: the initial and the final prompt of a prompt text
_parse_prompts(prompt) ==
  IF prompt = ""
  THEN [initial_prompt |-> None, final_prompt |-> None]
  ELSE [initial_prompt |->
          InitialFromLegacy(prompt,
            InitialFromNano(prompt, InitialFromMarker(prompt))),
        final_prompt |-> FinalPrompt(prompt)]

\* SceneData(scene_num, scene_title, prompt, duration)
SceneData(scene_number, title, prompt, duration) ==
  [scene_number |-> scene_number, title |-> title, prompt |-> prompt,
   duration |-> duration,
   initial_prompt |-> _parse_prompts(prompt).initial_prompt,
   final_prompt |-> _parse_prompts(prompt).final_prompt]

\* the scenes list: one SceneData per header match whose scene content has a
\* prompt block
RECURSIVE ScenesOf(_, _)
ScenesOf(text, matches) ==
  IF matches = <<>> THEN <<>>
  ELSE LET m == Head(matches)
           block == PromptBlock(SceneContent(text, m))
       IN  (IF block.ok
            THEN <<SceneData(StrToNat(m.number), Strip(m.title),
                             Strip(block.group), SceneDuration(Strip(m.descriptor)))>>
            ELSE <<>>)
           \o ScenesOf(text, Tail(matches))

\* the tail r'\s*-\s*\d+\s*SCENES?' of the title pattern matches at p
TitleTailAt(text, p) ==
  LET dash   == SkipSpace(text, p)
      number == SkipSpace(text, dash + 1)
      stop   == SkipDigits(text, number)
  IN  /\ Char(text, dash) = "-"
      /\ stop > number
      /\ StartsAt(text, SkipSpace(text, stop), SceneUpper)

\* r'^#\s*(.+?)\s*-\s*\d+\s*SCENES?' with re.MULTILINE matched at position
\* p: the spans <<start, stop>> group 1 may take
TitleSpans(text, p) ==
  {span \in ((p + 1)..SkipSpace(text, p + 1)) \X ((p + 2)..(Len(text) + 1)) :
     /\ span[1] < span[2]
     /\ \A k \in span[1]..(span[2] - 1) : Char(text, k) # "\n"
     /\ TitleTailAt(text, span[2])}

TitleAt(text, p) ==
  /\ StartsAt(text, p, "#")
  /\ p = 1 \/ Char(text, p - 1) = "\n"
  /\ TitleSpans(text, p) # {}

\* the title: group 1 of the first match, with the greedy \s* as long and
\* then the lazy group as short as a match allows; "Unknown" without a match
DocumentTitle(text) ==
  LET hits == {p \in 1..Len(text) : TitleAt(text, p)}
  IN  IF hits = {} THEN "Unknown"
      ELSE LET spans == TitleSpans(text, Least(hits))
               start == CHOOSE a \in {s[1] : s \in spans} :
                          \A s \in spans : s[1] <= a
               stop  == Least({s[2] : s \in {t \in spans : t[1] = start}})
           IN  SubSeq(text, start, stop - 1)

DurationLabel == "Total Duration:"

\* r'Total Duration:\s*(\d+)\s*seconds' matched at position p
TotalDurationAt(text, p) ==
  LET number == SkipSpace(text, p + Len(DurationLabel))
      stop == SkipDigits(text, number)
  IN  IF /\ StartsAt(text, p, DurationLabel)
         /\ stop > number
         /\ StartsAt(text, SkipSpace(text, stop), "seconds")
      THEN [ok |-> TRUE, group |-> SubSeq(text, number, stop - 1)]
      ELSE NoMatch

DefaultTotalDuration == 72

\* mutant: without a match the total duration is 0
TotalDuration_zero(text) ==
  LET hits == {p \in 1..Len(text) : TotalDurationAt(text, p).ok}
  IN  IF hits = {} THEN 0
      ELSE StrToNat(TotalDurationAt(text, Least(hits)).group)

\* total_duration: int(group 1) of the first match, 72 without a match
TotalDuration(text) ==
  LET hits == {p \in 1..Len(text) : TotalDurationAt(text, p).ok}
  IN  IF hits = {} THEN DefaultTotalDuration
      ELSE StrToNat(TotalDurationAt(text, Least(hits)).group)

parse_explainer_file(content) ==
  [title |-> DocumentTitle(content),
   total_duration |-> TotalDuration(content),
   format |-> "9:16",
   scenes |-> ScenesOf(content, HeadersFrom(content, 1))]

(***************************************************************************)
(* Documents: at most MaxLines lines, each one of DocLines.                *)
(***************************************************************************)
DocLines ==
  {"## SCENE 0: Intro (6 seconds)\n",
   "## **SCENE 1: Problem** (8 seconds)\n",
   "## scene 2: Lower (5 seconds)\n",
   "## SCENE 3: Bare\n",
   "Layout Design:\n",
   "Image Generation Prompts (2-Step Workflow):\n",
   "Nano Banana Iterative Prompt:\n",
   "\"Initial: a ball | Iteration 1: add text\"\n",
   "Animation Prompt for AI Video Model:\n"}

RECURSIVE Concat(_)
Concat(lines) ==
  IF lines = <<>> THEN "" ELSE Head(lines) \o Concat(Tail(lines))

Documents ==
  {Concat(lines) : lines \in UNION {[1..n -> DocLines] : n \in 0..MaxLines}}

ParserInit ==
  /\ sel = NoCall
  /\ gen = NoSequence
  /\ file = None
  /\ loaded = None
  /\ doc \in Documents
  /\ parsed = None
  /\ scene = None
  /\ exists = TRUE
  /\ error = ""
  /\ orch = NoWorkflow
  /\ narr = NoNarration

\* mutant: a missing file reads as an empty document
open_read_empty(path_exists, content) ==
  Some(IF path_exists THEN content ELSE "")

\* open(filepath, 'r') and f.read(): the content of the file, or None when
\* open raises FileNotFoundError
open_read(path_exists, content) ==
  IF path_exists THEN Some(content) ELSE None

ParseCall ==
  /\ parsed = None
  /\ error = ""
  /\ IF open_read(exists, doc) = None
     THEN parsed' = None /\ error' = "FileNotFoundError"
     ELSE /\ parsed' = Some(parse_explainer_file(open_read(exists, doc)[1]))
          /\ error' = ""
  /\ UNCHANGED <<sel, gen, file, loaded, doc, scene, exists, orch, narr>>

ParserNext == ParseCall

ParserSpec == ParserInit /\ [][ParserNext]_vars

(***************************************************************************)
(* Documents with document-level fields: at most MaxLines lines, each one  *)
(* of FieldLines.                                                          *)
(***************************************************************************)
TitleLine == "# My Story - 3 SCENES\n"
TotalDurationLine == "Total Duration: 48 seconds\n"

FieldLines ==
  {TitleLine,
   TotalDurationLine,
   "## SCENE 1: Problem (8 seconds)\n",
   "Image Generation Prompts (2-Step Workflow):\n",
   "Animation Prompt for AI Video Model:\n"}

FieldDocuments ==
  {Concat(lines) : lines \in UNION {[1..n -> FieldLines] : n \in 0..MaxLines}}

FieldInit ==
  /\ sel = NoCall
  /\ gen = NoSequence
  /\ file = None
  /\ loaded = None
  /\ doc \in FieldDocuments
  /\ parsed = None
  /\ scene = None
  /\ exists = TRUE
  /\ error = ""
  /\ orch = NoWorkflow
  /\ narr = NoNarration

FieldSpec == FieldInit /\ [][ParserNext]_vars

(***************************************************************************)
(* SceneData constructed directly on a prompt text of at most              *)
(* MaxPromptLines lines, each one of PromptLines.                          *)
(***************************************************************************)
PromptLines ==
  {"Initial: a ball | Iteration 1: add text\n",
   "Nano Banana Iterative Prompt:\n",
   "\"Initial: a cube | Iteration 1: zoom\"\n",
   "Initial Prompt:\n",
   "\"a cone\"\n",
   "Final Prompt (after iteration):\n",
   "\"[To be determined after iteration]\"\n"}

PromptTexts ==
  {Concat(lines) :
     lines \in UNION {[1..n -> PromptLines] : n \in 0..MaxPromptLines}}

SceneDataCall ==
  /\ scene = None
  /\ exists = TRUE
  /\ error = ""
  /\ orch = NoWorkflow
  /\ narr = NoNarration
  /\ \E prompt \in PromptTexts :
       scene' = Some(SceneData(0, "Scene", prompt, DefaultDuration))
  /\ UNCHANGED <<sel, gen, file, loaded, doc, parsed,
                 exists, error, orch, narr>>

PromptNext == SceneDataCall

PromptSpec == Init /\ [][PromptNext]_vars

(***************************************************************************)
(* orchestrate_workflow (workflow_orchestrator.py) on a document of at     *)
(* most MaxBlocks scene blocks.  The file system, process_scene and the    *)
(* user's answer to handle_error are the environment: each is a choice     *)
(* made when the code consults it.  The elapsed time is left out of the    *)
(* statistics.                                                             *)
(***************************************************************************)
\* mutant: an empty list of scene numbers selects every scene
filter_scenes_truthy(scenes, scene_numbers) ==
  IF scene_numbers = None \/ scene_numbers = Some(<<>>) THEN scenes
  ELSE SelectSeq(scenes, LAMBDA s : InList(s.scene_number, scene_numbers[1]))

\* filter_scenes(scenes, scene_numbers)
filter_scenes(scenes, scene_numbers) ==
  IF scene_numbers = None THEN scenes
  ELSE SelectSeq(scenes, LAMBDA s : InList(s.scene_number, scene_numbers[1]))

\* the answers input() may give; None stands for input() raising EOFError
Responses == {Some("y"), Some("Y"), Some("n"), Some(""), None}

\* response.lower() == 'y'
SaysYes(response) == response \in {"y", "Y"}

\* mutant: the loop goes on after every failure
handle_error_continue(continue_on_error, response) == TRUE

\* handle_error(scene, error, continue_on_error), given the user's answer
handle_error(continue_on_error, response) ==
  IF continue_on_error THEN SaysYes(response) ELSE FALSE

\* mutant: the total counts the calls of process_scene
Statistics_attempted(total, completed, skipped, failed) ==
  [total |-> completed + failed, completed |-> completed,
   skipped |-> skipped, failed |-> failed]

\* the statistics record returned
Statistics(total, completed, skipped, failed) ==
  [total |-> total, completed |-> completed, skipped |-> skipped,
   failed |-> failed]

BlockNumbers == {0, 1}

\* a scene heading with a prompt block in the current format
SceneBlock(k) ==
  "## SCENE " \o NatToStr(k) \o ": Scene (6 seconds)\n"
  \o "Image Generation Prompts (2-Step Workflow):\n"
  \o "Animation Prompt for AI Video Model:\n"

WorkflowDocuments ==
  {Concat([k \in 1..Len(numbers) |-> SceneBlock(numbers[k])]) :
     numbers \in UNION {[1..n -> BlockNumbers] : n \in 0..MaxBlocks}}

SceneNumbersInputs == {None, Some(<<>>), Some(<<1>>), Some(<<1, 0>>)}

\* the scene numbers whose output file exists when orchestrate_workflow is
\* called
OutputsInputs == {{}, {0}, {0, 1}}

\* check_output_exists(output_dir, filename) for the output directory of
\* scene_number
check_output_exists(outputs, scene_number) == scene_number \in outputs

\* mutant: a scene with an output is skipped whatever skip_existing is
SkipsScene_always(skip_existing, output_exists) == output_exists

\* the condition under which the loop skips a scene
SkipsScene(skip_existing, output_exists) == skip_existing /\ output_exists

\* the entry of the loop's history for one handled scene
Handled(scene_number, existed, outcome) ==
  [scene_number |-> scene_number, existed |-> existed, outcome |-> outcome]

WorkflowInit ==
  /\ sel = NoCall
  /\ gen = NoSequence
  /\ file = None
  /\ loaded = None
  /\ \/ exists = TRUE /\ doc \in WorkflowDocuments
     \/ exists = FALSE /\ doc = ""
  /\ parsed = None
  /\ scene = None
  /\ error = ""
  /\ orch = NoWorkflow
  /\ narr = NoNarration

\* orchestrate_workflow up to the loop: the existence check, the parse, the
\* filter and the early return without scenes
OrchestrateCall ==
  /\ orch.pc = "idle"
  /\ \E data \in {parse_explainer_file(doc)} :
         \E scene_numbers \in SceneNumbersInputs, outputs \in OutputsInputs,
            skip_existing \in BOOLEAN, continue_on_error \in BOOLEAN :
       LET called == [orch EXCEPT !.scene_numbers = scene_numbers,
                                  !.skip_existing = skip_existing,
                                  !.continue_on_error = continue_on_error,
                                  !.outputs = outputs]
           scenes == filter_scenes(data.scenes, scene_numbers)
       IN  IF ~exists
           THEN orch' = [called EXCEPT !.pc = "raised",
                                       !.error = "FileNotFoundError"]
           ELSE IF scenes = <<>>
           THEN orch' = [called EXCEPT !.pc = "returned",
                                       !.data = data.scenes,
                                       !.stats = Some(Statistics(0, 0, 0, 0))]
           ELSE orch' = [called EXCEPT !.pc = "loop", !.data = data.scenes,
                                       !.scenes = scenes,
                                       !.i = 1, !.total = Len(scenes)]
  /\ UNCHANGED <<sel, gen, file, loaded, doc, parsed,
                 scene, exists, error, narr>>

\* one iteration of the loop over the scenes
OrchestrateStep ==
  /\ orch.pc = "loop"
  /\ orch.i <= orch.total
  /\ LET number  == orch.scenes[orch.i].scene_number
         existed == check_output_exists(orch.outputs, number)
         skipped == [orch EXCEPT !.log = Append(@, Handled(number, existed,
                                                           "skipped")),
                                 !.skipped = @ + 1, !.i = @ + 1]
         completed == [orch EXCEPT !.processed = Append(@, number),
                                   !.log = Append(@, Handled(number, existed,
                                                             "completed")),
                                   !.completed = @ + 1, !.i = @ + 1]
         raised  == [orch EXCEPT !.processed = Append(@, number),
                                 !.log = Append(@, Handled(number, existed,
                                                           "failed")),
                                 !.failed = @ + 1]
     IN  \/ \* the output exists and is skipped
            /\ SkipsScene(orch.skip_existing, existed)
            /\ orch' = skipped
         \/ \* process_scene returns, with or without writing the output
            /\ ~SkipsScene(orch.skip_existing, existed)
            /\ \E written \in BOOLEAN :
                 orch' = [completed EXCEPT
                            !.outputs = IF written THEN @ \cup {number} ELSE @]
         \/ \* process_scene raises an Exception and handle_error asks
            /\ ~SkipsScene(orch.skip_existing, existed)
            /\ orch.continue_on_error
            /\ \E response \in Responses :
                 IF response = None
                 THEN orch' = [raised EXCEPT !.asked = @ + 1, !.pc = "raised",
                                             !.error = "EOFError"]
                 ELSE IF handle_error(orch.continue_on_error, response[1])
                 THEN orch' = [raised EXCEPT !.asked = @ + 1, !.i = @ + 1]
                 ELSE orch' = [raised EXCEPT !.asked = @ + 1, !.pc = "break"]
         \/ \* process_scene raises an Exception and handle_error does not ask
            /\ ~SkipsScene(orch.skip_existing, existed)
            /\ ~orch.continue_on_error
            /\ IF handle_error(orch.continue_on_error, "")
               THEN orch' = [raised EXCEPT !.i = @ + 1]
               ELSE orch' = [raised EXCEPT !.pc = "break"]
  /\ UNCHANGED <<sel, gen, file, loaded, doc, parsed,
                 scene, exists, error, narr>>

\* the loop is over: the statistics are returned
OrchestrateReturn ==
  /\ orch.pc = "break" \/ (orch.pc = "loop" /\ orch.i > orch.total)
  /\ orch' = [orch EXCEPT !.pc = "returned",
                          !.stats = Some(Statistics(orch.total, orch.completed,
                                                    orch.skipped, orch.failed))]
  /\ UNCHANGED <<sel, gen, file, loaded, doc, parsed,
                 scene, exists, error, narr>>

\* parse_explainer_file and orchestrate_workflow share no state: a direct
\* parse is taken before the orchestration starts
WorkflowNext ==
  \/ orch.pc = "idle" /\ ParseCall
  \/ OrchestrateCall
  \/ OrchestrateStep
  \/ OrchestrateReturn

WorkflowSpec == WorkflowInit /\ [][WorkflowNext]_vars

(***************************************************************************)
(* narration_extractor.py, on the characters of the document.              *)
(***************************************************************************)
\* r'## \*?\*?SCENE (\d+): ([^(]+) \(([^)]+)\)' matched at position p: the
\* three groups, the start and the position after the match
NarrationHeaderAt(text, p) ==
  LET word   == SkipStars(text, p + 3)
      number == word + Len(SceneUpper) + 1
      colon  == SkipDigits(text, number)
      title  == colon + 2
      open   == FindFrom(text, "(", title)
      close  == FindFrom(text, ")", open + 1)
  IN  IF /\ StartsAt(text, p, "## ")
         /\ StartsAt(text, word, SceneUpper \o " ")
         /\ colon > number
         /\ StartsAt(text, colon, ": ")
         \* [^(]+ is at least one character and leaves the blank before "("
         /\ open > title + 1
         /\ Char(text, open - 1) = " "
         /\ close > open + 1
      THEN [ok |-> TRUE, start |-> p,
            number |-> SubSeq(text, number, colon - 1),
            title |-> SubSeq(text, title, open - 2),
            descriptor |-> SubSeq(text, open + 1, close - 1),
            end |-> close + 1]
      ELSE NoMatch

\* re.findall of the header pattern: the matches from position p on, from
\* left to right and without overlap
RECURSIVE scene_headers(_, _)
scene_headers(text, p) ==
  LET q == FindFrom(text, "## ", p)
  IN  IF q = 0 THEN <<>>
      ELSE LET m == NarrationHeaderAt(text, q)
           IN  IF m.ok THEN <<m>> \o scene_headers(text, m.end)
               ELSE scene_headers(text, q + 1)

\* rf'## \*?\*?SCENE {scene_num}:' matches at position p; the position after
\* the match, 0 without a match
SectionStartAt(text, p, scene_num) ==
  LET word == SkipStars(text, p + 3)
      marker == SceneUpper \o " " \o scene_num \o ":"
  IN  IF StartsAt(text, p, "## ") /\ StartsAt(text, word, marker)
      THEN word + Len(marker)
      ELSE 0

\* the lookahead r'## \*?\*?SCENE \d+:' matches at position p
SectionEndAt(text, p) ==
  LET word   == SkipStars(text, p + 3)
      number == word + Len(SceneUpper) + 1
      colon  == SkipDigits(text, number)
  IN  /\ StartsAt(text, p, "## ")
      /\ StartsAt(text, word, SceneUpper \o " ")
      /\ colon > number
      /\ Char(text, colon) = ":"

\* `$` matches at position p: at the end of the text, or before a newline
\* that ends it
DollarAt(text, p) ==
  \/ p = Len(text) + 1
  \/ p = Len(text) /\ Char(text, p) = "\n"

\* scene_section: the first match of the section pattern, which is lazy up
\* to the next scene marker or `$`
scene_section(text, scene_num) ==
  LET starts == {p \in 1..Len(text) : SectionStartAt(text, p, scene_num) # 0}
  IN  IF starts = {} THEN NoMatch
      ELSE LET from == SectionStartAt(text, Least(starts), scene_num)
               stops == {p \in from..(Len(text) + 1) :
                           SectionEndAt(text, p) \/ DollarAt(text, p)}
           IN  [ok |-> TRUE,
                group |-> SubSeq(text, Least(starts), Least(stops) - 1)]

NarrationLabel == "Narration: \""

\* r'Narration: "([^"]+)"' matched at position p: group 1
NarrationAt(text, p) ==
  LET from  == p + Len(NarrationLabel)
      close == FindFrom(text, "\"", from)
  IN  IF StartsAt(text, p, NarrationLabel) /\ close > from
      THEN [ok |-> TRUE, group |-> SubSeq(text, from, close - 1)]
      ELSE NoMatch

\* narration_match: the first match in the section
narration_match(section) ==
  LET hits == {p \in 1..Len(section) : NarrationAt(section, p).ok}
  IN  IF hits = {} THEN NoMatch ELSE NarrationAt(section, Least(hits))

\* the loop of extract_narration_from_file over the headers from the k-th on
RECURSIVE NarratedScenes(_, _, _)
NarratedScenes(text, headers, k) ==
  IF k > Len(headers) THEN <<>>
  ELSE LET section == scene_section(text, headers[k].number)
           found   == section.ok /\ narration_match(section.group).ok
       IN  (IF found
            THEN <<[scene_number |-> StrToNat(headers[k].number),
                    title |-> Strip(headers[k].title),
                    duration |-> Strip(headers[k].descriptor),
                    narration |->
                      Strip(narration_match(section.group).group)]>>
            ELSE <<>>)
           \o NarratedScenes(text, headers, k + 1)

extract_narration_from_file(content) ==
  NarratedScenes(content, scene_headers(content, 1), 1)

\* mutant: an absent scene yields an empty narration instead of ValueError
get_narration_for_scene_empty(content, scene_number) ==
  LET scenes == extract_narration_from_file(content)
      hits == {k \in 1..Len(scenes) : scenes[k].scene_number = scene_number}
  IN  IF hits = {} THEN Some("") ELSE Some(scenes[Least(hits)].narration)

\* get_narration_for_scene: the narration of the first record with the scene
\* number, None when the loop ends and ValueError is raised
get_narration_for_scene(content, scene_number) ==
  LET scenes == extract_narration_from_file(content)
      hits == {k \in 1..Len(scenes) : scenes[k].scene_number = scene_number}
  IN  IF hits = {} THEN None ELSE Some(scenes[Least(hits)].narration)

LastNarratedScene == 11

\* mutant: every record up to scene 11 is kept, seen before or not
FilteredScenes_repeated(scenes, k, seen_scenes) ==
  SelectSeq(scenes, LAMBDA s : s.scene_number <= LastNarratedScene)

\* the loop of get_all_narrations over the records from the k-th on
RECURSIVE FilteredScenes(_, _, _)
FilteredScenes(scenes, k, seen_scenes) ==
  IF k > Len(scenes) THEN <<>>
  ELSE IF /\ scenes[k].scene_number <= LastNarratedScene
          /\ scenes[k].scene_number \notin seen_scenes
  THEN <<scenes[k]>>
       \o FilteredScenes(scenes, k + 1,
                         seen_scenes \cup {scenes[k].scene_number})
  ELSE FilteredScenes(scenes, k + 1, seen_scenes)

get_all_narrations(content) ==
  FilteredScenes(extract_narration_from_file(content), 1, {})

(***************************************************************************)
(* Narrated documents: at most MaxNarrated blocks, each a scene heading of *)
(* NarratedHeadings followed by a narration line of NarrationLines or by   *)
(* none.                                                                   *)
(***************************************************************************)
NarratedHeadings ==
  {"## **SCENE 1: Problem** (8 seconds)\n",
   "## SCENE 12: Extra (5 seconds)\n"}

NarrationLines ==
  {"",
   "Narration: \"Hello there.\"\n",
   "Narration: \"\"\n"}

NarratedBlocks == {h \o n : h \in NarratedHeadings, n \in NarrationLines}

NarratedDocuments ==
  {Concat(blocks) :
     blocks \in UNION {[1..n -> NarratedBlocks] : n \in 0..MaxNarrated}}

SceneNumberInputs == {1, 2, 12}

NarrationInit ==
  /\ sel = NoCall
  /\ gen = NoSequence
  /\ file = None
  /\ loaded = None
  /\ doc \in NarratedDocuments
  /\ parsed = None
  /\ scene = None
  /\ exists = TRUE
  /\ error = ""
  /\ orch = NoWorkflow
  /\ narr = NoNarration

ExtractNarrationCall ==
  /\ narr.op = "none"
  /\ IF open_read(exists, doc) = None
     THEN narr' = [narr EXCEPT !.op = "extract",
                               !.error = "FileNotFoundError"]
     ELSE narr' = [narr EXCEPT
                     !.op = "extract",
                     !.scenes =
                       extract_narration_from_file(open_read(exists, doc)[1])]
  /\ UNCHANGED <<sel, gen, file, loaded, doc, parsed,
                 scene, exists, error, orch>>

GetNarrationCall ==
  /\ narr.op = "none"
  /\ \E scene_number \in SceneNumberInputs :
       LET called == [narr EXCEPT !.op = "get",
                                  !.scene_number = scene_number]
           narration ==
             get_narration_for_scene(open_read(exists, doc)[1], scene_number)
       IN  IF open_read(exists, doc) = None
           THEN narr' = [called EXCEPT !.error = "FileNotFoundError"]
           ELSE narr' = [called EXCEPT !.narration = narration,
                                       !.error = IF narration = None
                                                 THEN "ValueError" ELSE ""]
  /\ UNCHANGED <<sel, gen, file, loaded, doc, parsed,
                 scene, exists, error, orch>>

GetAllNarrationsCall ==
  /\ narr.op = "none"
  /\ IF open_read(exists, doc) = None
     THEN narr' = [narr EXCEPT !.op = "all", !.error = "FileNotFoundError"]
     ELSE narr' = [narr EXCEPT
                     !.op = "all",
                     !.scenes = get_all_narrations(open_read(exists, doc)[1])]
  /\ UNCHANGED <<sel, gen, file, loaded, doc, parsed,
                 scene, exists, error, orch>>

NarrationNext ==
  \/ ExtractNarrationCall
  \/ GetNarrationCall
  \/ GetAllNarrationsCall

NarrationSpec == NarrationInit /\ [][NarrationNext]_vars

(***************************************************************************)
(* Properties of the layout selector.                                      *)
(***************************************************************************)
PatternIds == 1..100

\* the ids of a list of suggestions or sequence records
IdsOf(records) == [k \in 1..Len(records) |-> records[k].pattern_id]

\* no value occurs at two positions of the list
Distinct(list) ==
  \A i, j \in 1..Len(list) : i # j => list[i] # list[j]

\* the backfill step of the recorded suggest_patterns call extended the pool
BackfillRan ==
  Len(CategoryStep(StartCandidates(sel.scene_type, UsedList(sel.used_patterns)),
                   sel.previous_pattern, sel.restricted)) < sel.count

\* C1: the pattern_ids of a sequence returned by generate_sequence are
\* pairwise distinct.
SequenceIdsDistinct ==
  gen.pc = "returned" => Distinct(IdsOf(gen.sequence))

\* a returned sequence whose first two scenes have the same scene type, and
\* so draw on the same curated list
SequenceIdsDistinctWitness ==
  /\ gen.pc = "returned"
  /\ Len(gen.sequence) = MaxScenes
  /\ GivenTypes(gen.scene_types)
  /\ gen.scene_types[1][1] = gen.scene_types[1][2]

\* C2: generate_sequence returns exactly num_scenes records, with or without
\* a scene_types list.
ReturnsNumScenes ==
  gen.pc = "returned" => Len(gen.sequence) = gen.num_scenes

\* a returned sequence of four "timeline" scenes, one more than the curated
\* list of "timeline" has entries
ReturnsNumScenesWitness ==
  /\ gen.pc = "returned"
  /\ GivenTypes(gen.scene_types)
  /\ Len(gen.scene_types[1]) > Len(SCENE_TYPE_RECOMMENDATIONS.timeline)
  /\ \A k \in 1..Len(gen.scene_types[1]) : gen.scene_types[1][k] = "timeline"
  /\ Len(gen.sequence) = gen.num_scenes

\* C3: suggest_patterns never returns an id of used_patterns.
NeverSuggestsUsed ==
  sel.op = "suggest" =>
    \A k \in 1..Len(sel.suggestions) :
      ~InList(sel.suggestions[k].pattern_id, UsedList(sel.used_patterns))

\* a call with used ids whose pool was extended by the backfill step
NeverSuggestsUsedWitness ==
  /\ sel.op = "suggest"
  /\ UsedList(sel.used_patterns) # <<>>
  /\ sel.previous_pattern # None
  /\ BackfillRan
  /\ Len(sel.suggestions) = sel.count
  /\ sel.count > 0

\* C4: the pattern_ids returned by one call of suggest_patterns are pairwise
\* distinct.
SuggestionsDistinct ==
  sel.op = "suggest" => Distinct(IdsOf(sel.suggestions))

\* C5: suggest_patterns returns at most count suggestions, and exactly count
\* when at least count catalog ids are not in used_patterns.
CountRespected ==
  sel.op = "suggest" =>
    /\ Len(sel.suggestions) <= sel.count
    /\ Cardinality({p \in DOMAIN LAYOUT_PATTERNS :
                      ~InList(p, UsedList(sel.used_patterns))}) >= sel.count
         => Len(sel.suggestions) = sel.count

\* a call that the curated list alone could not fill and that returned
\* exactly count suggestions
CountRespectedWitness ==
  /\ sel.op = "suggest"
  /\ RecognizedType(sel.scene_type)
  /\ BackfillRan
  /\ sel.count = MaxCount
  /\ Len(sel.suggestions) = sel.count

\* C6: generate_sequence raises ValueError for every supplied scene_types list
\* whose length differs from num_scenes.
MismatchRaises ==
  (/\ gen.pc # "idle"
   /\ gen.scene_types # None
   /\ Len(gen.scene_types[1]) # gen.num_scenes)
    => gen.pc = "raised"

\* C7: every id in 1..100 is in exactly one of the 7 categories, and
\* get_category returns that category.
CategoryPartition ==
  /\ Cardinality(DOMAIN CATEGORIES) = 7
  /\ (sel.op = "category" /\ sel.pattern_id \in PatternIds) =>
       /\ Cardinality({c \in DOMAIN CATEGORIES :
                         InList(sel.pattern_id, CATEGORIES[c])}) = 1
       /\ sel.category \in DOMAIN CATEGORIES
       /\ InList(sel.pattern_id, CATEGORIES[sel.category])

\* get_category was called on the last id of the first category
CategoryPartitionWitness ==
  /\ sel.op = "category"
  /\ sel.pattern_id = 15
  /\ sel.category = "asymmetric"

\* C8: get_category returns "unknown" for every id outside 1..100 and for no
\* id inside it.
UnknownOutsideCatalog ==
  sel.op = "category" =>
    (sel.category = "unknown" <=> sel.pattern_id \notin PatternIds)

\* get_category was called on 101
UnknownOutsideCatalogWitness ==
  /\ sel.op = "category"
  /\ sel.pattern_id = 101
  /\ sel.category = "unknown"

\* C9: load_sequence returns a list equal to the sequence save_sequence wrote.
RoundTrip ==
  loaded # None => loaded[1] = gen.sequence

\* a saved and loaded sequence of several records, one of them with a name
\* that json.dump escapes
RoundTripWitness ==
  /\ loaded # None
  /\ Len(gen.sequence) > 1
  /\ \E k \in 1..Len(gen.sequence) : gen.sequence[k].pattern_id = 63
  /\ loaded[1] = gen.sequence

(***************************************************************************)
(* Properties of the parser.                                               *)
(***************************************************************************)
\* the body of the k-th scene heading of the document: the text from the end
\* of the heading to the start of the next scene heading, or to the end
OwnBody(text, matches, k) ==
  SubSeq(text, matches[k].end,
         IF k < Len(matches) THEN matches[k + 1].start - 1 ELSE Len(text))

\* the scene numbers of the headings whose own body holds a prompt block, in
\* document order
RECURSIVE NumbersWithPrompt(_, _, _)
NumbersWithPrompt(text, matches, k) ==
  IF k > Len(matches) THEN <<>>
  ELSE (IF PromptBlock(OwnBody(text, matches, k)).ok
        THEN <<StrToNat(matches[k].number)>> ELSE <<>>)
       \o NumbersWithPrompt(text, matches, k + 1)

\* C10: scenes holds exactly the scene headings whose own body contains a
\* recognized prompt block, in document order.
ScenesAreHeadingsWithOwnPrompt ==
  parsed # None =>
    [k \in 1..Len(parsed[1].scenes) |-> parsed[1].scenes[k].scene_number]
      = NumbersWithPrompt(doc, HeadersFrom(doc, 1), 1)

\* the pairs <<scene number, prompt>> of the headings whose own body holds a
\* prompt block, each prompt taken from that body alone
OwnPrompts(text, matches) ==
  {<<StrToNat(matches[k].number),
     Strip(PromptBlock(OwnBody(text, matches, k)).group)>> :
     k \in {i \in 1..Len(matches) : PromptBlock(OwnBody(text, matches, i)).ok}}

\* C11: the prompt of every scene record comes from the body of a heading
\* with that scene number, never from the body of a later heading.
PromptFromOwnBody ==
  parsed # None =>
    \A k \in 1..Len(parsed[1].scenes) :
      <<parsed[1].scenes[k].scene_number, parsed[1].scenes[k].prompt>>
        \in OwnPrompts(doc, HeadersFrom(doc, 1))

(***************************************************************************)
(* Properties of the prompt decomposition.                                 *)
(***************************************************************************)
\* the trimmed text between the marker that begins the prompt and the next
\* "|", or the end of the prompt when there is none
TextAfterMarker(prompt) ==
  LET text == Strip(prompt)
      bar  == FindFrom(text, "|", 1)
      stop == IF bar = 0 THEN Len(text) + 1 ELSE bar
  IN  Strip(SubSeq(text, Len(InitialLabel) + 1, stop - 1))

\* C12: when the prompt begins with "Initial:", initial_prompt is the trimmed
\* text between that marker and the next "|", whatever else the prompt holds.
FirstRuleWins ==
  (scene # None /\ StartsAt(Strip(scene[1].prompt), 1, InitialLabel)) =>
    scene[1].initial_prompt = Some(TextAfterMarker(scene[1].prompt))

\* C13: final_prompt is never placeholder text, and stays None when the
\* quoted block under the "Final Prompt" label begins with the placeholder.
NoPlaceholderFinal ==
  scene # None =>
    /\ scene[1].final_prompt # None =>
         ~StartsAt(scene[1].final_prompt[1], 1, Placeholder)
    /\ (/\ FinalBlock(scene[1].prompt).ok
        /\ StartsAt(Strip(FinalBlock(scene[1].prompt).group), 1, Placeholder))
         => scene[1].final_prompt = None

\* a scene whose prompt holds the placeholder under the "Final Prompt" label
\* and whose initial_prompt was derived
NoPlaceholderFinalWitness ==
  /\ scene # None
  /\ FinalBlock(scene[1].prompt).ok
  /\ StartsAt(Strip(FinalBlock(scene[1].prompt).group), 1, Placeholder)
  /\ scene[1].initial_prompt # None
  /\ scene[1].final_prompt = None

(***************************************************************************)
(* Properties of the document-level fields.                                *)
(***************************************************************************)
\* C14: a document without a title line parses with title "Unknown", and one
\* without a total duration line with total_duration 72, each whatever the
\* other field and the scenes are.
FieldDefaults ==
  parsed # None =>
    /\ FindFrom(doc, TitleLine, 1) = 0 => parsed[1].title = "Unknown"
    /\ FindFrom(doc, TotalDurationLine, 1) = 0 => parsed[1].total_duration = 72

\* a parsed document with a scene and a total duration line and no title line
FieldDefaultsWitness ==
  /\ parsed # None
  /\ FindFrom(doc, TitleLine, 1) = 0
  /\ FindFrom(doc, TotalDurationLine, 1) # 0
  /\ parsed[1].title = "Unknown"
  /\ parsed[1].total_duration = 48
  /\ parsed[1].scenes # <<>>

(***************************************************************************)
(* Properties of a missing document.                                       *)
(***************************************************************************)
\* C15: on a path that names no file, parse_explainer_file raises
\* FileNotFoundError and returns no document, and orchestrate_workflow raises
\* FileNotFoundError without a call of process_scene.
MissingFileRaises ==
  ~exists =>
    /\ parsed = None
    /\ error \in {"", "FileNotFoundError"}
    /\ orch.pc \in {"idle", "raised"}
    /\ orch.pc = "raised" =>
         orch.error = "FileNotFoundError" /\ orch.processed = <<>>

\* both functions were called on a missing path and raised
MissingFileRaisesWitness ==
  /\ ~exists
  /\ error = "FileNotFoundError"
  /\ orch.pc = "raised"
  /\ orch.error = "FileNotFoundError"

(***************************************************************************)
(* Properties of the narration extractor.                                  *)
(***************************************************************************)
\* the scene numbers of the scene headings of the document
HeadingNumbers(text) ==
  {StrToNat(scene_headers(text, 1)[k].number) :
     k \in 1..Len(scene_headers(text, 1))}

\* the own body of the k-th scene heading: the text from its start to the
\* start of the next scene heading, or to the end
OwnSection(text, headers, k) ==
  SubSeq(text, headers[k].start,
         IF k < Len(headers) THEN headers[k + 1].start - 1 ELSE Len(text))

\* the pairs <<scene number, narration>> of the headings whose own body holds
\* a narration, in document order
RECURSIVE OwnNarrations(_, _, _)
OwnNarrations(text, headers, k) ==
  IF k > Len(headers) THEN <<>>
  ELSE (IF narration_match(OwnSection(text, headers, k)).ok
        THEN <<<<StrToNat(headers[k].number),
                 Strip(narration_match(OwnSection(text, headers, k)).group)>>>>
        ELSE <<>>)
       \o OwnNarrations(text, headers, k + 1)

\* the narrations in the own bodies of the headings numbered scene_number
NarrationsOf(text, scene_number) ==
  LET own == OwnNarrations(text, scene_headers(text, 1), 1)
  IN  {own[k][2] : k \in {i \in 1..Len(own) : own[i][1] = scene_number}}

\* C16: get_narration_for_scene raises ValueError for a scene number without
\* a scene heading, and a narration it returns lies in the body of a heading
\* with that number.
AbsentSceneRaises ==
  narr.op = "get" =>
    /\ narr.scene_number \notin HeadingNumbers(doc) =>
         narr.error = "ValueError" /\ narr.narration = None
    /\ narr.narration # None =>
         narr.narration[1] \in NarrationsOf(doc, narr.scene_number)

\* a lookup of a scene number without heading in a document with narrations
AbsentSceneRaisesWitness ==
  /\ narr.op = "get"
  /\ narr.scene_number \notin HeadingNumbers(doc)
  /\ OwnNarrations(doc, scene_headers(doc, 1), 1) # <<>>
  /\ narr.error = "ValueError"

\* C17: for a scene number whose heading is present and whose bodies hold no
\* narration, get_narration_for_scene returns a string and does not raise.
UnnarratedSceneReturns ==
  (/\ narr.op = "get"
   /\ narr.scene_number \in HeadingNumbers(doc)
   /\ NarrationsOf(doc, narr.scene_number) = {})
    => narr.error = "" /\ narr.narration # None

\* s is a subsequence of t
RECURSIVE IsSubsequence(_, _)
IsSubsequence(s, t) ==
  IF s = <<>> THEN TRUE
  ELSE IF t = <<>> THEN FALSE
  ELSE IF Head(s) = Head(t) THEN IsSubsequence(Tail(s), Tail(t))
  ELSE IsSubsequence(s, Tail(t))

\* the first record of the list with the scene number
FirstWithNumber(records, scene_number) ==
  records[Least({k \in 1..Len(records) :
                   records[k].scene_number = scene_number})]

NarrationFromOwnBody ==
  narr.op = "extract" =>
    [k \in 1..Len(narr.scenes) |->
       <<narr.scenes[k].scene_number, narr.scenes[k].narration>>]
      = OwnNarrations(doc, scene_headers(doc, 1), 1)

(***************************************************************************)
(* Properties of the scene numbers.                                        *)
(***************************************************************************)
\* C20: the scene numbers of a parsed document are non-negative integers and
\* pairwise distinct.
SceneNumbersUnique ==
  parsed # None =>
    /\ \A k \in 1..Len(parsed[1].scenes) :
         parsed[1].scenes[k].scene_number \in Nat
    /\ \A i, j \in 1..Len(parsed[1].scenes) :
         i # j => parsed[1].scenes[i].scene_number
                    # parsed[1].scenes[j].scene_number

(***************************************************************************)
(* Properties of the scene durations.                                      *)
(***************************************************************************)
\* documents of scene headings with different duration descriptors
DurationLines ==
  {"## SCENE 1: Problem (8 seconds)\n",
   "## SCENE 2: Flash (0 seconds)\n",
   "## SCENE 3: Quick (2.5 seconds)\n",
   "## SCENE 4: Short (short)\n",
   "Image Generation Prompts (2-Step Workflow):\n",
   "Animation Prompt for AI Video Model:\n"}

DurationDocuments ==
  {Concat(lines) : lines \in UNION {[1..n -> DurationLines] : n \in 0..MaxLines}}

DurationInit ==
  /\ sel = NoCall
  /\ gen = NoSequence
  /\ file = None
  /\ loaded = None
  /\ doc \in DurationDocuments
  /\ parsed = None
  /\ scene = None
  /\ exists = TRUE
  /\ error = ""
  /\ orch = NoWorkflow
  /\ narr = NoNarration

DurationSpec == DurationInit /\ [][ParserNext]_vars

\* a float greater than 0
PositiveDuration(duration) ==
  \/ duration.whole > 0
  \/ \E p \in 1..Len(duration.fraction) : Char(duration.fraction, p) # "0"

\* C21: every scene record of a parsed document has a duration greater
\* than 0.
DurationsPositive ==
  parsed # None =>
    \A k \in 1..Len(parsed[1].scenes) :
      PositiveDuration(parsed[1].scenes[k].duration)

(***************************************************************************)
(* Properties of the orchestration loop.                                   *)
(***************************************************************************)
\* the positions of the loop's history with the given outcome
EntriesWith(outcome) ==
  {k \in 1..Len(orch.log) : orch.log[k].outcome = outcome}

\* C22: with skip_existing a scene whose output exists when the loop reaches
\* it is skipped, counted in skipped and not passed to process_scene; without
\* skip_existing no scene is skipped, every scene reached is passed to
\* process_scene and skipped stays 0.
SkipExisting ==
  /\ \A k \in 1..Len(orch.log) :
       /\ orch.skip_existing /\ orch.log[k].existed
            => orch.log[k].outcome = "skipped"
       /\ ~orch.skip_existing => orch.log[k].outcome # "skipped"
  /\ orch.skipped = Cardinality(EntriesWith("skipped"))
  /\ orch.skip_existing
       => orch.skipped = Cardinality({k \in 1..Len(orch.log) :
                                        orch.log[k].existed})
  /\ Len(orch.processed) = Len(orch.log) - Cardinality(EntriesWith("skipped"))
  /\ ~orch.skip_existing
       => orch.skipped = 0 /\ Len(orch.processed) = Len(orch.log)

\* a returned run that processed one scene and skipped a later one whose
\* output existed
SkipExistingWitness ==
  /\ orch.pc = "returned"
  /\ orch.skip_existing
  /\ \E i, j \in 1..Len(orch.log) :
       /\ i < j
       /\ orch.log[i].outcome = "completed"
       /\ orch.log[j].outcome = "skipped"
       /\ orch.log[j].existed
  /\ orch.stats[1].skipped = 1

\* C23: with continue_on_error=False handle_error does not ask the user and
\* the loop stops at the first scene whose process_scene raises: the failed
\* scene is the last one handled, and the statistics returned have failed = 1.
StopsAtFirstFailure ==
  ~orch.continue_on_error =>
    /\ orch.asked = 0
    /\ orch.error # "EOFError"
    /\ orch.failed <= 1
    /\ \A k \in EntriesWith("failed") :
         /\ k = Len(orch.log)
         /\ orch.i = k
         /\ orch.pc \in {"break", "returned"}
         /\ orch.pc = "returned" => orch.stats[1].failed = 1

\* a returned run that stopped at a failed scene with scenes left over
StopsAtFirstFailureWitness ==
  /\ ~orch.continue_on_error
  /\ orch.pc = "returned"
  /\ Len(orch.log) > 1
  /\ Len(orch.log) < orch.total
  /\ orch.log[Len(orch.log)].outcome = "failed"
  /\ orch.stats[1].failed = 1
  /\ orch.stats[1].completed + orch.stats[1].skipped + 1 < orch.stats[1].total

\* C24: filter_scenes returns every scene when scene_numbers is None, and
\* otherwise exactly the scenes whose number is in the list, in document
\* order, none for the empty list; process_scene is called only for scenes
\* whose number is in the list.
FilterScenes ==
  orch.pc # "idle" /\ exists =>
    /\ orch.scene_numbers = None => orch.scenes = orch.data
    /\ orch.scene_numbers # None =>
         LET kept == {k \in 1..Len(orch.data) :
                        InList(orch.data[k].scene_number,
                               orch.scene_numbers[1])}
         IN  /\ Len(orch.scenes) = Cardinality(kept)
             /\ \E at \in [1..Len(orch.scenes) -> kept] :
                  /\ \A i, j \in 1..Len(orch.scenes) : i < j => at[i] < at[j]
                  /\ \A i \in 1..Len(orch.scenes) :
                       orch.scenes[i] = orch.data[at[i]]
             /\ orch.scene_numbers[1] = <<>> =>
                  orch.scenes = <<>> /\ orch.processed = <<>>
             /\ \A k \in 1..Len(orch.processed) :
                  InList(orch.processed[k], orch.scene_numbers[1])

\* scenes 0, 1, 0 of the document selected by the list [1, 0] and processed
\* in document order
FilterScenesWitness ==
  /\ orch.pc = "returned"
  /\ orch.scene_numbers = Some(<<1, 0>>)
  /\ Len(orch.data) = 3
  /\ orch.processed = <<0, 1, 0>>
  /\ orch.stats[1].total = 3

\* the scenes numbered 0 are left out by the list [1]
FilterScenesDropsWitness ==
  /\ orch.pc = "returned"
  /\ orch.scene_numbers = Some(<<1>>)
  /\ Len(orch.data) = 3
  /\ orch.processed = <<1>>

(***************************************************************************)
(* Properties of the category step of suggest_patterns.                    *)
(***************************************************************************)
\* the candidates of the call whose category differs from the previous
\* pattern's, before the category step
DifferingCandidates ==
  DiffCategory(StartCandidates(sel.scene_type, UsedList(sel.used_patterns)),
               sel.previous_pattern)

\* the suggestions of the call in the category of the previous pattern
SameCategorySuggestions ==
  {k \in 1..Len(sel.suggestions) :
     sel.suggestions[k].category = get_category(sel.previous_pattern[1])}

\* C25: when a previous pattern is given, the restricting branch is taken
\* and at least count candidates differ in category from the previous
\* pattern, every suggestion has a category other than the previous
\* pattern's.
CategoryDebias ==
  /\ sel.op = "suggest"
  /\ GivenPattern(sel.previous_pattern)
  /\ sel.restricted
  /\ Len(DifferingCandidates) >= sel.count
  => SameCategorySuggestions = {}

\* the restricting branch left out candidates of the previous category and
\* count suggestions were returned
CategoryDebiasWitness ==
  /\ sel.op = "suggest"
  /\ GivenPattern(sel.previous_pattern)
  /\ sel.restricted
  /\ Len(DifferingCandidates) >= sel.count
  /\ SameCategory(StartCandidates(sel.scene_type, UsedList(sel.used_patterns)),
                  sel.previous_pattern) # <<>>
  /\ sel.count > 1
  /\ Len(sel.suggestions) = sel.count
  /\ SameCategorySuggestions = {}

\* the other branch was taken with differing candidates at hand and a
\* suggestion of the previous category was returned
SameCategoryEligible ==
  /\ sel.op = "suggest"
  /\ GivenPattern(sel.previous_pattern)
  /\ ~sel.restricted
  /\ Len(DifferingCandidates) >= sel.count
  /\ sel.count > 0
  /\ SameCategorySuggestions # {}

(***************************************************************************)
(* Properties of the loop of generate_sequence.                            *)
(***************************************************************************)
\* C26: at step i (0-based) generate_sequence calls suggest_patterns with
\* count 3, the pattern_ids of the records 0..i-1 as used_patterns and the
\* pattern_id of record i-1 as previous_pattern (None at step 0); record i
\* is the first suggestion returned with scene_number i, so the scene
\* numbers of the records are 0, 1, 2, ... in order.
ThreadsState ==
  gen.pc \in {"loop", "returned"} =>
    /\ gen.call = None <=> gen.i = 0
    /\ \A k \in 1..Len(gen.sequence) : gen.sequence[k].scene_number = k - 1
    /\ gen.call # None =>
         LET step  == gen.i - 1
             first == gen.call[1].selected[1]
         IN  /\ gen.call[1].count = 3
             /\ gen.call[1].used_patterns
                  = IdsOf(SubSeq(gen.sequence, 1, step))
             /\ gen.call[1].previous_pattern
                  = IF step = 0 THEN None
                    ELSE Some(gen.sequence[step].pattern_id)
             /\ Len(gen.sequence) = step + 1
             /\ gen.sequence[step + 1]
                  = [scene_number |-> step,
                     pattern_id   |-> first.pattern_id,
                     name         |-> first.name,
                     category     |-> first.category,
                     weight       |-> first.weight]

\* the call of the last of MaxScenes steps, made with the ids of the earlier
\* records and returning three suggestions
ThreadsStateWitness ==
  /\ gen.pc = "returned"
  /\ gen.num_scenes = MaxScenes
  /\ gen.call # None
  /\ Len(gen.call[1].used_patterns) = MaxScenes - 1
  /\ gen.call[1].previous_pattern
       = Some(gen.sequence[MaxScenes - 1].pattern_id)
  /\ gen.call[1].returned = 3
  /\ gen.sequence[MaxScenes].scene_number = MaxScenes - 1

\* C27: asked for more than 100 scenes, generate_sequence raises nothing and
\* returns 100 records numbered 0..99 that hold every catalog id once; the
\* steps from 100 on get no suggestion, add no record and leave
\* used_patterns and previous_pattern as they were.
PoolExhaustion ==
  gen.num_scenes > 100 =>
    /\ gen.pc # "raised"
    /\ Len(gen.sequence) = Min(gen.i, 100)
    /\ \A k \in 1..Len(gen.sequence) : gen.sequence[k].scene_number = k - 1
    /\ gen.used_patterns = IdsOf(gen.sequence)
    /\ gen.i >= 100 =>
         /\ {gen.sequence[k].pattern_id : k \in 1..Len(gen.sequence)} = 1..100
         /\ gen.previous_pattern = Some(gen.sequence[100].pattern_id)
    /\ gen.i > 100 =>
         /\ gen.call[1].returned = 0
         /\ gen.call[1].used_patterns = gen.used_patterns
         /\ gen.call[1].previous_pattern = gen.previous_pattern
    /\ gen.pc = "returned" => gen.i = gen.num_scenes

\* a returned call for 102 scenes of type "timeline" whose last steps got no
\* suggestion
PoolExhaustionWitness ==
  /\ gen.pc = "returned"
  /\ gen.num_scenes = 102
  /\ GivenTypes(gen.scene_types)
  /\ Len(gen.sequence) = 100
  /\ gen.call[1].returned = 0
  /\ gen.sequence[100].pattern_id # 100

\* C28: the loop handles the scenes of the filtered list in list order, each
\* at most once, and counts each handled scene in exactly one of completed,
\* skipped and failed; the statistics returned have completed + skipped +
\* failed <= total, with equality unless the loop stopped at a failed scene,
\* and a run without scenes returns all counters 0 and never calls
\* process_scene.
StatisticsAccounting ==
  /\ Len(orch.log) <= orch.total
  /\ orch.total = Len(orch.scenes)
  /\ \A k \in 1..Len(orch.log) :
       /\ orch.log[k].scene_number = orch.scenes[k].scene_number
       /\ orch.log[k].outcome \in {"completed", "skipped", "failed"}
  /\ orch.completed = Cardinality(EntriesWith("completed"))
  /\ orch.skipped = Cardinality(EntriesWith("skipped"))
  /\ orch.failed = Cardinality(EntriesWith("failed"))
  /\ orch.pc = "returned" =>
       LET stats == orch.stats[1]
           sum   == stats.completed + stats.skipped + stats.failed
       IN  /\ stats = [total |-> Len(orch.scenes),
                       completed |-> orch.completed,
                       skipped |-> orch.skipped, failed |-> orch.failed]
           /\ sum = Len(orch.log)
           /\ sum <= stats.total
           /\ sum < stats.total => orch.log[Len(orch.log)].outcome = "failed"
           /\ stats.failed = 0 => sum = stats.total
           /\ orch.scenes = <<>> =>
                /\ stats = [total |-> 0, completed |-> 0, skipped |-> 0,
                            failed |-> 0]
                /\ orch.processed = <<>>

\* a returned run of three scenes: one completed, one skipped, one failed
\* with the user answering yes
StatisticsAccountingWitness ==
  /\ orch.pc = "returned"
  /\ orch.stats[1].total = 3
  /\ orch.stats[1].completed = 1
  /\ orch.stats[1].skipped = 1
  /\ orch.stats[1].failed = 1
  /\ orch.log[1].outcome = "failed"
  /\ orch.asked = 1

\* C29: after process_scene raised for a scene, orchestrate_workflow raises
\* nothing: the scene is counted in failed only, the call returns its
\* statistics, and with continue_on_error the loop goes on exactly when the
\* answer is y or Y.
FailuresContained ==
  EntriesWith("failed") # {} =>
    /\ orch.pc # "raised"
    /\ orch.failed = Cardinality(EntriesWith("failed"))
    /\ orch.pc = "returned" => orch.stats[1].failed = orch.failed

====
